---- MODULE Spec2Model ----
(***************************************************************************)
(* A model of the rawmdns wire-format codec (github.com/sayotte/rawmdns):  *)
(* the encoders (DNSHeader / DNSQuestion / resource records / DNSMessage   *)
(* .ToBytes) as operators on byte sequences, and the Decoder as a state    *)
(* machine over a byte reader, an offset counter and the label table.      *)
(*                                                                         *)
(* Bytes are naturals 0..255; a Go string or []byte is a sequence of       *)
(* bytes.  Fixed-width integers keep their width (uint8 % 256, uint16      *)
(* % 65536).                                                               *)
(***************************************************************************)
EXTENDS Naturals, Sequences, FiniteSets, TLC

VARIABLES
    src,   \* the value handed to the encoder
    wire,  \* what the encoder returned: [b |-> bytes, err |-> error]
    d,     \* the Decoder: [rdr |-> readCounter, labelRecords |-> Seq(labelRecord)]
    pc,    \* control point of the caller
    dm,    \* the value the decoder has produced so far
    err    \* the error the decoder returned: "nil", "EOF" (the bare io.EOF),
           \* "wrapped" (an fmt.Errorf value), "panic" (a run-time panic) or
           \* "crash" (stack exhaustion)

vars == <<src, wire, d, pc, dm, err>>

Null == [none |-> TRUE]

----------------------------------------------------------------------------
(* Fixed-width arithmetic and bit operations.                              *)

RECURSIVE Pow2(_)
Pow2(n) == IF n = 0 THEN 1 ELSE 2 * Pow2(n - 1)

Shr(x, n) == x \div Pow2(n)

Bit(x, n) == Shr(x, n) % 2

RECURSIVE BitOrN(_, _, _)
BitOrN(a, b, n) ==
    IF n = 0 THEN 0
    ELSE (IF a % 2 = 1 \/ b % 2 = 1 THEN 1 ELSE 0) + 2 * BitOrN(a \div 2, b \div 2, n - 1)

RECURSIVE BitAndN(_, _, _)
BitAndN(a, b, n) ==
    IF n = 0 THEN 0
    ELSE (IF a % 2 = 1 /\ b % 2 = 1 THEN 1 ELSE 0) + 2 * BitAndN(a \div 2, b \div 2, n - 1)

RECURSIVE BitAndNotN(_, _, _)
BitAndNotN(a, b, n) ==
    IF n = 0 THEN 0
    ELSE (IF a % 2 = 1 /\ b % 2 = 0 THEN 1 ELSE 0) + 2 * BitAndNotN(a \div 2, b \div 2, n - 1)

Or8(a, b)      == BitOrN(a, b, 8)
And8(a, b)     == BitAndN(a, b, 8)
AndNot8(a, b)  == BitAndNotN(a, b, 8)
Or16(a, b)     == BitOrN(a, b, 16)
And16(a, b)    == BitAndN(a, b, 16)

U8(x)  == x % 256
U16(x) == x % 65536

\* encoding/binary, big endian
BE16(x) == <<(x \div 256) % 256, x % 256>>
FromBE16(b) == b[1] * 256 + b[2]
\* a uint32 is held as its two 16-bit halves <<high, low>>, which keeps every
\* number of the model below 2^31
BE32(x) == BE16(x[1]) \o BE16(x[2])
FromBE32(b) == <<FromBE16(SubSeq(b, 1, 2)), FromBE16(SubSeq(b, 3, 4))>>

Min(a, b) == IF a < b THEN a ELSE b

Zeros(n) == [k \in 1..n |-> 0]

Slice(s, from, to) == IF to < from THEN <<>> ELSE SubSeq(s, from, to)

RECURSIVE Concat(_)
Concat(ss) == IF ss = <<>> THEN <<>> ELSE Head(ss) \o Concat(Tail(ss))

----------------------------------------------------------------------------
(* DNSHeader <-> rawDNSHeader <-> 12 bytes.                                *)

\* DNSHeader.toRaw
DNSHeader_toRaw(dh) ==
    LET f0a == IF dh.IsResponse THEN Or8(0, 128) ELSE 0
        f0b == Or8(f0a, U8(U8(dh.OpCode) * 8))
        f0c == IF dh.Authoritative THEN Or8(f0b, 4) ELSE f0b
        f0d == IF dh.Truncated THEN Or8(f0c, 2) ELSE f0c
        f0e == IF dh.RecursionDesired THEN Or8(f0d, 1) ELSE f0d
        f1a == IF dh.RecursionAvailable THEN Or8(0, 128) ELSE 0
        f1b == Or8(f1a, And8(U8(dh.ResponseCode), 15))
    IN  [Id      |-> U16(dh.ID),
         Flag    |-> <<f0e, f1b>>,
         QdCount |-> U16(dh.NumQuestions),
         AnCount |-> U16(dh.NumAnswers),
         NSCount |-> U16(dh.NumNameServers),
         ArCount |-> U16(dh.NumAddlRecords)]

\* rawDNSHeader.toBytes: binary.Write of the struct, big endian
rawDNSHeader_toBytes(rdh) ==
    BE16(rdh.Id) \o rdh.Flag \o BE16(rdh.QdCount) \o BE16(rdh.AnCount)
        \o BE16(rdh.NSCount) \o BE16(rdh.ArCount)

\* DNSHeader.toBytes
DNSHeader_toBytes(dh) == rawDNSHeader_toBytes(DNSHeader_toRaw(dh))

\* binary.Read of 12 bytes into a rawDNSHeader
rawDNSHeader_fromBytes(b) ==
    [Id      |-> FromBE16(SubSeq(b, 1, 2)),
     Flag    |-> SubSeq(b, 3, 4),
     QdCount |-> FromBE16(SubSeq(b, 5, 6)),
     AnCount |-> FromBE16(SubSeq(b, 7, 8)),
     NSCount |-> FromBE16(SubSeq(b, 9, 10)),
     ArCount |-> FromBE16(SubSeq(b, 11, 12))]

\* rawDNSHeader.toDNSHeader as it would be without the "&^ 0x10" that clears the
\* QR bit shifted into the OpCode
toDNSHeader_OpCodeUnmasked(rdh) ==
    [ID                 |-> rdh.Id,
     IsResponse         |-> Shr(rdh.Flag[1], 7) = 1,
     OpCode             |-> Shr(rdh.Flag[1], 3),
     Authoritative      |-> Shr(And8(rdh.Flag[1], 4), 2) = 1,
     Truncated          |-> Shr(And8(rdh.Flag[1], 2), 1) = 1,
     RecursionDesired   |-> And8(rdh.Flag[1], 1) = 1,
     RecursionAvailable |-> Shr(rdh.Flag[2], 7) = 1,
     ResponseCode       |-> And8(rdh.Flag[2], 15),
     NumQuestions       |-> rdh.QdCount,
     NumAnswers         |-> rdh.AnCount,
     NumNameServers     |-> rdh.NSCount,
     NumAddlRecords     |-> rdh.ArCount]

\* rawDNSHeader.toDNSHeader
rawDNSHeader_toDNSHeader(rdh) ==
    [ID                 |-> rdh.Id,
     IsResponse         |-> Shr(rdh.Flag[1], 7) = 1,
     OpCode             |-> AndNot8(Shr(rdh.Flag[1], 3), 16),
     Authoritative      |-> Shr(And8(rdh.Flag[1], 4), 2) = 1,
     Truncated          |-> Shr(And8(rdh.Flag[1], 2), 1) = 1,
     RecursionDesired   |-> And8(rdh.Flag[1], 1) = 1,
     RecursionAvailable |-> Shr(rdh.Flag[2], 7) = 1,
     ResponseCode       |-> And8(rdh.Flag[2], 15),
     NumQuestions       |-> rdh.QdCount,
     NumAnswers         |-> rdh.AnCount,
     NumNameServers     |-> rdh.NSCount,
     NumAddlRecords     |-> rdh.ArCount]

----------------------------------------------------------------------------
(* Readers.  A bytes.Reader is [s |-> bytes, i |-> bytes consumed]; a      *)
(* readCounter adds the running offset.  Read(buf) with len(buf) = n       *)
(* returns (0, io.EOF) whenever the reader is exhausted, also for n = 0;   *)
(* otherwise it copies min(n, remaining) bytes into the zero-filled buffer *)
(* and returns no error.                                                   *)

NewReader(b) == [s |-> b, i |-> 0]

Remaining(r) == Len(r.s) - r.i

\* bytes.Reader.Read(buf): copies into the front of buf, leaving the rest of it
Reader_ReadInto(r, buf) ==
    IF r.i >= Len(r.s)
    THEN [n |-> 0, err |-> "EOF", buf |-> buf, r |-> r]
    ELSE LET k == Min(Len(buf), Remaining(r))
         IN  [n   |-> k,
              err |-> "nil",
              buf |-> Slice(r.s, r.i + 1, r.i + k) \o Slice(buf, k + 1, Len(buf)),
              r   |-> [r EXCEPT !.i = r.i + k]]

\* bytes.Reader.Read into a fresh buffer make([]byte, n)
Reader_Read(r, n) == Reader_ReadInto(r, Zeros(n))

\* bytes.Reader.ReadByte
Reader_ReadByte(r) ==
    IF r.i >= Len(r.s)
    THEN [err |-> "EOF", b |-> 0, r |-> r]
    ELSE [err |-> "nil", b |-> r.s[r.i + 1], r |-> [r EXCEPT !.i = r.i + 1]]

\* readCounter.Read
readCounter_Read(rc, n) ==
    LET Counted(rd) ==
            [n |-> rd.n, err |-> rd.err, buf |-> rd.buf,
             rc |-> [reader |-> rd.r, offset |-> rc.offset + rd.n]]
    IN  Counted(Reader_Read(rc.reader, n))

\* binary.Read of a fixed-size value of n > 0 bytes from the readCounter
\* (io.ReadFull): io.EOF when nothing could be read, io.ErrUnexpectedEOF when
\* only a part could.
binary_Read(rc, n) ==
    LET Full(rd) ==
            IF rd.err = "EOF" THEN [err |-> "EOF", buf |-> rd.buf, rc |-> rd.rc]
            ELSE IF rd.n < n THEN [err |-> "ErrUnexpectedEOF", buf |-> rd.buf, rc |-> rd.rc]
            ELSE [err |-> "nil", buf |-> rd.buf, rc |-> rd.rc]
    IN  Full(readCounter_Read(rc, n))

\* NewDecoder
NewDecoder(b) ==
    [rdr |-> [reader |-> NewReader(b), offset |-> 0], labelRecords |-> <<>>]

----------------------------------------------------------------------------
(* Domain names: strings.Split / strings.Join on "." and the raw labels.   *)

Dot == 46

RECURSIVE SplitFrom(_, _)
\* the segments of s from position from on, cut at each "."
SplitFrom(s, from) ==
    LET dots == {k \in from..Len(s) : s[k] = Dot}
    IN  IF dots = {} THEN <<Slice(s, from, Len(s))>>
        ELSE LET k == CHOOSE x \in dots : \A y \in dots : x <= y
             IN  <<Slice(s, from, k - 1)>> \o SplitFrom(s, k + 1)

\* strings.Split(s, ".")
Split(s) == SplitFrom(s, 1)

RECURSIVE Join(_)
\* strings.Join(parts, ".")
Join(parts) ==
    IF parts = <<>> THEN <<>>
    ELSE IF Len(parts) = 1 THEN parts[1]
    ELSE parts[1] \o <<Dot>> \o Join(Tail(parts))

\* domain.toRawLabels
domain_toRawLabels(dom) ==
    LET segs == Split(dom)
    IN  [k \in 1..Len(segs) |-> [length |-> U8(Len(segs[k])), content |-> segs[k]]]

\* rawLabel.toBytes
rawLabel_toBytes(rl) == <<rl.length>> \o rl.content

\* rawLabels.toBytes
rawLabels_toBytes(rlList) ==
    Concat([k \in 1..Len(rlList) |-> rawLabel_toBytes(rlList[k])]) \o <<0>>

\* rawLabels.toDomain
rawLabels_toDomain(rlList) ==
    Join([k \in 1..Len(rlList) |-> rlList[k].content])

----------------------------------------------------------------------------
(* The label table and the name decoder.                                   *)

\* the scan as it would be if a pointer record ended it like the root label,
\* without the labels at its target
rawLabelsFromOffsetAt_StopAtPointer(lrecs, k, off, visited) ==
    LET seen  == SelectSeq([j \in 1..Len(lrecs) |-> j],
                           LAMBDA j : j >= k /\ lrecs[j].offset >= off)
        stops == {i \in 1..Len(seen) : lrecs[seen[i]].isPtr \/ lrecs[seen[i]].length = 0}
        end   == IF stops = {} THEN Len(seen) + 1
                 ELSE CHOOSE i \in stops : \A x \in stops : i <= x
    IN  [labels |-> [i \in 1..(end - 1) |->
                        [length |-> lrecs[seen[i]].length,
                         content |-> lrecs[seen[i]].content]],
         crash  |-> FALSE]

RECURSIVE rawLabelsFromOffsetAt(_, _, _, _)
\* Decoder.rawLabelsFromOffset, scanning from record k; visited holds the
\* targets of the calls now on the stack.  The loop passes over the records
\* below off and takes the labels of the others up to the first root or
\* pointer record; at a pointer record it calls itself for the target.  The
\* function reads only the table and its argument, so a call for an offset
\* already on the stack recurses without end: the goroutine's stack overflows
\* (crash).
rawLabelsFromOffsetAt(lrecs, k, off, visited) ==
    LET seen  == SelectSeq([j \in 1..Len(lrecs) |-> j],
                           LAMBDA j : j >= k /\ lrecs[j].offset >= off)
        stops == {i \in 1..Len(seen) : lrecs[seen[i]].isPtr \/ lrecs[seen[i]].length = 0}
        end   == IF stops = {} THEN Len(seen) + 1
                 ELSE CHOOSE i \in stops : \A x \in stops : i <= x
        lits  == [i \in 1..(end - 1) |->
                     [length |-> lrecs[seen[i]].length,
                      content |-> lrecs[seen[i]].content]]
        After(rest) == [labels |-> lits \o rest.labels, crash |-> rest.crash]
        Follow(lr) ==
            IF lr.targetOffset \in visited THEN [labels |-> <<>>, crash |-> TRUE]
            ELSE After(rawLabelsFromOffsetAt(lrecs, 1, lr.targetOffset,
                                             visited \cup {lr.targetOffset}))
    IN  IF end <= Len(seen) /\ lrecs[seen[end]].isPtr THEN Follow(lrecs[seen[end]])
        ELSE [labels |-> lits, crash |-> FALSE]

\* rawLabelsFromOffset as it would be if it skipped the records at offsets up to
\* and including off ("lr.offset <= off")
rawLabelsFromOffset_SkipEqual(lrecs, off) ==
    rawLabelsFromOffsetAt(lrecs, 1, off + 1, {off})

rawLabelsFromOffset(lrecs, off) == rawLabelsFromOffsetAt(lrecs, 1, off, {off})

\* the length check as it would be if every byte that is not a pointer were
\* taken for a length
IllegalLength_Never(length) == FALSE

\* "first two bits may be 00 or 11, but not 01 or 10"
IllegalLength(length) == And8(length, 128) = 128 \/ And8(length, 64) = 64

RECURSIVE nextRawLabelsLoop(_, _, _, _, _)
\* Decoder._nextRawLabelsFromReaderWithBaseOffset: the loop, on a bytes.Reader r.
\* Yields the labels, the error, the reader and the label table afterwards.
nextRawLabelsLoop(r, baseOffset, cursor, rlList, lrecs) ==
    LET fail(rr, e) == [labels |-> <<>>, err |-> e, r |-> rr, lrecs |-> lrecs]
        lRec(offset, length, content, isPtr, target) ==
            [offset |-> offset, length |-> length, content |-> content,
             isPtr |-> isPtr, targetOffset |-> target]
        \* a literal label of the given length
        Literal(offset, length, rd) ==
            IF rd.err # "nil" THEN fail(rd.r, "wrapped")
            ELSE nextRawLabelsLoop(rd.r, baseOffset, cursor + 1 + rd.n,
                                   Append(rlList, [length |-> length, content |-> rd.buf]),
                                   Append(lrecs, lRec(offset, length, rd.buf, FALSE, 0)))
        \* a compression pointer: the labels recorded at its target
        Resolved(offset, target, rr, res) ==
            IF res.crash THEN fail(rr, "crash")
            ELSE [labels |-> rlList \o res.labels, err |-> "nil", r |-> rr,
                  lrecs  |-> Append(lrecs, lRec(offset, 0, <<>>, TRUE, target))]
        Target(offset, target, rr) ==
            Resolved(offset, target, rr, rawLabelsFromOffset(lrecs, target))
        Pointer(offset, length, rd) ==
            IF rd.err # "nil" THEN fail(rd.r, "wrapped")
            ELSE Target(offset, U16(And16(length, 63) * 256 + rd.buf[1]), rd.r)
        Label(offset, length, rr) ==
            IF length = 0
            THEN [labels |-> rlList, err |-> "nil", r |-> rr,
                  lrecs  |-> Append(lrecs, lRec(offset, 0, <<>>, FALSE, 0))]
            ELSE IF Shr(length, 6) = 3 THEN Pointer(offset, length, Reader_Read(rr, 1))
            ELSE IF IllegalLength(length) THEN fail(rr, "wrapped")
            ELSE Literal(offset, length, Reader_Read(rr, length))
        Length(rd) ==
            IF rd.err # "nil" THEN fail(rd.r, "wrapped")
            ELSE Label(U16(baseOffset + cursor), rd.buf[1], rd.r)
    IN  Length(Reader_Read(r, 1))

nextRawLabelsFromReaderWithBaseOffset(r, baseOffset, lrecs) ==
    nextRawLabelsLoop(r, baseOffset, 0, <<>>, lrecs)

\* Decoder.nextRawLabels: the same on the Decoder's own readCounter, whose
\* offset advances by the bytes read.
nextRawLabels(dec) ==
    LET Counted(res) ==
            [labels |-> res.labels, err |-> res.err,
             d |-> [rdr |-> [reader |-> res.r,
                             offset |-> dec.rdr.offset + (res.r.i - dec.rdr.reader.i)],
                    labelRecords |-> res.lrecs]]
    IN  Counted(nextRawLabelsFromReaderWithBaseOffset(dec.rdr.reader, dec.rdr.offset,
                                                      dec.labelRecords))

\* Decoder.nextRawDNSHeader
nextRawDNSHeader(dec) ==
    LET Header(rd) ==
            [rdh |-> IF rd.err = "nil" THEN rawDNSHeader_fromBytes(rd.buf) ELSE Null,
             err |-> rd.err,
             d   |-> [dec EXCEPT !.rdr = rd.rc]]
    IN  Header(binary_Read(dec.rdr, 12))

----------------------------------------------------------------------------
(* Questions.                                                              *)

\* DNSQuestion.toRaw
DNSQuestion_toRaw(q) ==
    LET segs == Split(q.Domain)
    IN  [domainLabels |-> [k \in 1..Len(segs) |->
                              [length |-> U8(Len(segs[k])), content |-> segs[k]]],
         static |-> [Type  |-> q.Type,
                     Class |-> IF q.AcceptUnicastResponse
                               THEN Or16(q.Class, 32768) ELSE q.Class]]

\* rawDNSQuestion.toBytes
rawDNSQuestion_toBytes(rq) ==
    LET outLabels == Append(rq.domainLabels, [length |-> 0, content |-> <<>>])
    IN  Concat([k \in 1..Len(outLabels) |-> rawLabel_toBytes(outLabels[k])])
            \o BE16(rq.static.Type) \o BE16(rq.static.Class)

\* DNSQuestion.toBytes
DNSQuestion_toBytes(q) == rawDNSQuestion_toBytes(DNSQuestion_toRaw(q))

RECURSIVE toQuestionDomain(_, _)
\* the Domain loop of rawDNSQuestion.toQuestion
toQuestionDomain(labels, acc) ==
    IF labels = <<>> THEN acc
    ELSE toQuestionDomain(Tail(labels),
                          (IF Len(acc) > 0 THEN acc \o <<Dot>> ELSE acc)
                              \o Head(labels).content)

\* rawDNSQuestion.toQuestion as it would be without the "& 0x7FFF" on the class
toQuestion_ClassUnmasked(rq) ==
    [Domain |-> toQuestionDomain(rq.domainLabels, <<>>),
     Type   |-> rq.static.Type,
     Class  |-> rq.static.Class,
     AcceptUnicastResponse |-> And16(rq.static.Class, 32768) = 32768]

\* rawDNSQuestion.toQuestion
rawDNSQuestion_toQuestion(rq) ==
    [Domain |-> toQuestionDomain(rq.domainLabels, <<>>),
     Type   |-> rq.static.Type,
     Class  |-> And16(rq.static.Class, 32767),
     AcceptUnicastResponse |-> And16(rq.static.Class, 32768) = 32768]

\* Decoder.nextRawQuestion
nextRawQuestion(dec) ==
    LET Static(nl, rd) ==
            IF rd.err # "nil"
            THEN [rq |-> Null, err |-> "wrapped", d |-> [nl.d EXCEPT !.rdr = rd.rc]]
            ELSE [rq  |-> [domainLabels |-> nl.labels,
                           static |-> [Type  |-> FromBE16(SubSeq(rd.buf, 1, 2)),
                                       Class |-> FromBE16(SubSeq(rd.buf, 3, 4))]],
                  err |-> "nil",
                  d   |-> [nl.d EXCEPT !.rdr = rd.rc]]
        Labels(nl) ==
            IF nl.err # "nil" THEN [rq |-> Null, err |-> nl.err, d |-> nl.d]
            ELSE Static(nl, binary_Read(nl.d.rdr, 4))
    IN  Labels(nextRawLabels(dec))


----------------------------------------------------------------------------
(* Resource records: encoding.  A record is [kind, Common, ...] with the   *)
(* fields of the Go struct of that kind.                                   *)

TypeA    == 1
TypePTR  == 12
TypeTXT  == 16
TypeAAAA == 28
TypeSRV  == 33
TypeOPT  == 41
TypeNSEC == 47

RECURSIVE SortAsc(_)
\* sort.Sort on a slice of numbers: ascending, duplicates kept
SortAsc(s) ==
    IF s = <<>> THEN <<>>
    ELSE LET k == CHOOSE i \in 1..Len(s) : \A j \in 1..Len(s) : s[i] <= s[j]
         IN  <<s[k]>> \o SortAsc(Slice(s, 1, k - 1) \o Slice(s, k + 1, Len(s)))

RECURSIVE SortedKeys_Descending(_)
\* SortedKeys as it would be with Less comparing the other way round
SortedKeys_Descending(keys) ==
    IF keys = {} THEN <<>>
    ELSE LET k == CHOOSE x \in keys : \A y \in keys : x >= y
         IN  <<k>> \o SortedKeys_Descending(keys \ {k})

RECURSIVE SortedKeys(_)
\* the keys of a map, collected and sorted ascending
SortedKeys(keys) ==
    IF keys = {} THEN <<>>
    ELSE LET k == CHOOSE x \in keys : \A y \in keys : x <= y
         IN  <<k>> \o SortedKeys(keys \ {k})

\* net.IP.To4
IP_To4(ip) ==
    IF Len(ip) = 4 THEN ip
    ELSE IF Len(ip) = 16 /\ SubSeq(ip, 1, 10) = Zeros(10) /\ ip[11] = 255 /\ ip[12] = 255
    THEN SubSeq(ip, 13, 16)
    ELSE <<>>

\* net.IP.To16
IP_To16(ip) ==
    IF Len(ip) = 4 THEN Zeros(10) \o <<255, 255>> \o ip
    ELSE IF Len(ip) = 16 THEN ip
    ELSE <<>>

\* newRawResourceRecordFromCommon
newRawResourceRecordFromCommon(rrc) ==
    [domainLabels |-> domain_toRawLabels(rrc.Domain),
     static |-> [Type  |-> rrc.Type,
                 Class |-> IF rrc.CacheFlush THEN Or16(rrc.Class, 32768) ELSE rrc.Class,
                 TTL   |-> rrc.TTL,
                 RDataLength |-> 0],
     rDataOffsetInMsg |-> 0,
     rData |-> <<>>]

\* rawResourceRecord.toBytes
rawResourceRecord_toBytes(rrr) ==
    rawLabels_toBytes(rrr.domainLabels)
        \o BE16(rrr.static.Type) \o BE16(rrr.static.Class) \o BE32(rrr.static.TTL)
        \o BE16(rrr.static.RDataLength)
        \o rrr.rData

WithRData(rrr, length, rData) ==
    [rrr EXCEPT !.static.RDataLength = length, !.rData = rData]

\* ARecord.toRawDNSResourceRecord
ARecord_toRaw(ar) ==
    WithRData(newRawResourceRecordFromCommon(ar.Common), 4, IP_To4(ar.Addr))

\* AAAARecord.toRawDNSResourceRecord
AAAARecord_toRaw(ar) ==
    WithRData(newRawResourceRecordFromCommon(ar.Common), 16, IP_To16(ar.Addr))

\* SRVRecord.toRawDNSResourceRecord
SRVRecord_toRaw(sr) ==
    LET buf == BE16(sr.Priority) \o BE16(sr.Weight) \o BE16(sr.Port)
                   \o rawLabels_toBytes(domain_toRawLabels(sr.Target))
    IN  WithRData(newRawResourceRecordFromCommon(sr.Common), U16(Len(buf)), buf)

\* PTRRecord.toRawDNSResourceRecord: rData is made RDataLength long and the
\* name is copied into it
PTRRecord_toRaw(pr) ==
    LET ptrDNameBytes == rawLabels_toBytes(domain_toRawLabels(pr.PtrDName))
        length == U16(Len(ptrDNameBytes))
    IN  WithRData(newRawResourceRecordFromCommon(pr.Common), length,
                  Slice(ptrDNameBytes, 1, length))

\* TXTRecord.toRawDNSResourceRecord
TXTRecord_toRaw(tr) ==
    LET buf == Concat([k \in 1..Len(tr.texts) |->
                          <<U8(Len(tr.texts[k]))>> \o tr.texts[k]])
    IN  WithRData(newRawResourceRecordFromCommon(tr.Common), U16(Len(buf)), buf)

RECURSIVE GroupRun(_, _)
\* the leading elements of typeDecls in the same group as first
GroupRun(typeDecls, first) ==
    IF typeDecls = <<>> \/ Head(typeDecls).group # first.group THEN 0
    ELSE 1 + GroupRun(Tail(typeDecls), first)

RECURSIVE OctetRun(_, _)
\* the leading elements of inGroup in the same octet as first
OctetRun(inGroup, first) ==
    IF inGroup = <<>> \/ Head(inGroup).octet # first.octet THEN 0
    ELSE 1 + OctetRun(Tail(inGroup), first)

RECURSIVE OrBits_LowBitFirst(_)
\* OrBits as it would be with the bits counted from the low end ("0x01 << flag.bit")
OrBits_LowBitFirst(flags) ==
    IF flags = <<>> THEN 0
    ELSE Or8(Pow2(Head(flags).bit), OrBits_LowBitFirst(Tail(flags)))

RECURSIVE OrBits(_)
\* octetValue |= 0x80 >> flag.bit, over the flags of one octet
OrBits(flags) ==
    IF flags = <<>> THEN 0
    ELSE Or8(Shr(128, Head(flags).bit), OrBits(Tail(flags)))

RECURSIVE writeOctets(_)
\* _writeBitMap: the list of octets of one group (runs of equal octet number)
writeOctets(inGroup) ==
    IF inGroup = <<>> THEN <<>>
    ELSE LET n == 1 + OctetRun(Tail(inGroup), Head(inGroup))
         IN  <<[octetNum |-> Head(inGroup).octet,
                value    |-> OrBits(SubSeq(inGroup, 1, n))]>>
                 \o writeOctets(Slice(inGroup, n + 1, Len(inGroup)))

RECURSIVE writeGroups(_)
\* _writeBitMap: the list of groups (runs of equal group number)
writeGroups(typeDecls) ==
    IF typeDecls = <<>> THEN <<>>
    ELSE LET n == 1 + GroupRun(Tail(typeDecls), Head(typeDecls))
         IN  <<[groupNum |-> Head(typeDecls).group,
                octets   |-> writeOctets(SubSeq(typeDecls, 1, n))]>>
                 \o writeGroups(Slice(typeDecls, n + 1, Len(typeDecls)))

RECURSIVE writeGroupOctets(_, _, _)
\* _writeBitMap: the octets written for one group from iteration i on.  The
\* iterations write zero octets until i is the number of the first octet left,
\* which is then written and popped; a first octet whose number is behind i or
\* not below highOctetNum is never reached.  Indexing an empty octet list
\* would panic.
writeGroupOctets(octets, i, highOctetNum) ==
    IF i >= highOctetNum THEN [b |-> <<>>, panic |-> FALSE]
    ELSE IF octets = <<>> THEN [b |-> <<>>, panic |-> TRUE]
    ELSE LET Value(rest) ==
                 [b |-> Zeros(octets[1].octetNum - i) \o <<octets[1].value>> \o rest.b,
                  panic |-> rest.panic]
         IN  IF octets[1].octetNum >= i /\ octets[1].octetNum < highOctetNum
             THEN Value(writeGroupOctets(Tail(octets), octets[1].octetNum + 1,
                                         highOctetNum))
             ELSE [b |-> Zeros(highOctetNum - i), panic |-> FALSE]

RECURSIVE writeGroupBytes(_)
writeGroupBytes(groups) ==
    IF groups = <<>> THEN [b |-> <<>>, panic |-> FALSE]
    ELSE LET g == Head(groups)
             highOctetNum == U8(g.octets[Len(g.octets)].octetNum + 1)
             octs == writeGroupOctets(g.octets, 0, highOctetNum)
             rest == writeGroupBytes(Tail(groups))
         IN  [b |-> <<g.groupNum, highOctetNum>> \o octs.b \o rest.b,
              panic |-> octs.panic \/ rest.panic]

\* NSECRecord._writeBitMap
NSECRecord_writeBitMap(types) ==
    LET typeDecls == [k \in 1..Len(types) |->
                         [group |-> U8(types[k] \div 256),
                          octet |-> U8((types[k] % 256) \div 8),
                          bit   |-> U8(types[k] % 8)]]
    IN  writeGroupBytes(writeGroups(typeDecls))

\* NSECRecord.toRawDNSResourceRecord
NSECRecord_toRaw(nsr) ==
    LET buf == rawLabels_toBytes(domain_toRawLabels(nsr.NextDomainName))
                   \o NSECRecord_writeBitMap(nsr.NextDomainTypes).b
    IN  WithRData(newRawResourceRecordFromCommon(nsr.Common), U16(Len(buf)), buf)

\* OPTRecord.toRawDNSResourceRecord
OPTRecord_toRaw(opt) ==
    LET keys == SortedKeys(DOMAIN opt.Options)
        buf  == Concat([k \in 1..Len(keys) |->
                           BE16(keys[k]) \o BE16(U16(Len(opt.Options[keys[k]])))
                               \o opt.Options[keys[k]]])
    IN  WithRData(newRawResourceRecordFromCommon(opt.Common), U16(Len(buf)), buf)

\* DNSResourceRecord.toRawDNSResourceRecord, by the record's Go type
toRawDNSResourceRecord(rec) ==
    CASE rec.kind = "A"    -> ARecord_toRaw(rec)
      [] rec.kind = "AAAA" -> AAAARecord_toRaw(rec)
      [] rec.kind = "SRV"  -> SRVRecord_toRaw(rec)
      [] rec.kind = "PTR"  -> PTRRecord_toRaw(rec)
      [] rec.kind = "TXT"  -> TXTRecord_toRaw(rec)
      [] rec.kind = "NSEC" -> NSECRecord_toRaw(rec)
      [] rec.kind = "OPT"  -> OPTRecord_toRaw(rec)

\* DNSMessage.ToBytes as it would be with the additional records written before
\* the answers
DNSMessage_ToBytes_AdditionalFirst(m) ==
    [b |-> DNSHeader_toBytes(m.Hdr)
             \o Concat([k \in 1..Len(m.Questions) |-> DNSQuestion_toBytes(m.Questions[k])])
             \o Concat([k \in 1..Len(m.Additional) |->
                           rawResourceRecord_toBytes(
                               toRawDNSResourceRecord(m.Additional[k]))])
             \o Concat([k \in 1..Len(m.Answers) |->
                           rawResourceRecord_toBytes(toRawDNSResourceRecord(m.Answers[k]))]),
     err |-> "nil"]

\* DNSMessage.ToBytes; none of the writes to a bytes.Buffer fails, so the error
\* is nil
DNSMessage_ToBytes(m) ==
    [b |-> DNSHeader_toBytes(m.Hdr)
             \o Concat([k \in 1..Len(m.Questions) |-> DNSQuestion_toBytes(m.Questions[k])])
             \o Concat([k \in 1..Len(m.Answers) |->
                           rawResourceRecord_toBytes(toRawDNSResourceRecord(m.Answers[k]))])
             \o Concat([k \in 1..Len(m.Additional) |->
                           rawResourceRecord_toBytes(
                               toRawDNSResourceRecord(m.Additional[k]))]),
     err |-> "nil"]

----------------------------------------------------------------------------
(* Resource records: decoding.                                             *)

\* commonFromRawRR as it would be without the "& 0x7FFF" on the class
commonFromRawRR_ClassUnmasked(rdrr) ==
    [Domain     |-> rawLabels_toDomain(rdrr.domainLabels),
     Type       |-> rdrr.static.Type,
     Class      |-> rdrr.static.Class,
     CacheFlush |-> And16(rdrr.static.Class, 32768) = 32768,
     TTL        |-> rdrr.static.TTL]

\* commonFromRawRR
commonFromRawRR(rdrr) ==
    [Domain     |-> rawLabels_toDomain(rdrr.domainLabels),
     Type       |-> rdrr.static.Type,
     Class      |-> And16(rdrr.static.Class, 32767),
     CacheFlush |-> And16(rdrr.static.Class, 32768) = 32768,
     TTL        |-> rdrr.static.TTL]

\* Decoder.nextRawDNSResourceRecord.  The RDATA buffer is RDataLength long and
\* zero-filled; one Read fills as much of it as the stream still holds.
nextRawDNSResourceRecord(dec) ==
    LET RData(nl, rs, static, rd) ==
            IF rd.err # "nil"
            THEN [rdrr |-> Null, err |-> "wrapped", d |-> [nl.d EXCEPT !.rdr = rd.rc]]
            ELSE [rdrr |-> [domainLabels |-> nl.labels,
                            static |-> static,
                            rDataOffsetInMsg |-> rs.rc.offset,
                            rData |-> rd.buf],
                  err  |-> "nil",
                  d    |-> [nl.d EXCEPT !.rdr = rd.rc]]
        Sized(nl, rs, static) ==
            RData(nl, rs, static, readCounter_Read(rs.rc, static.RDataLength))
        Static(nl, rs) ==
            IF rs.err # "nil"
            THEN [rdrr |-> Null, err |-> "wrapped", d |-> [nl.d EXCEPT !.rdr = rs.rc]]
            ELSE Sized(nl, rs, [Type  |-> FromBE16(SubSeq(rs.buf, 1, 2)),
                                Class |-> FromBE16(SubSeq(rs.buf, 3, 4)),
                                TTL   |-> FromBE32(SubSeq(rs.buf, 5, 8)),
                                RDataLength |-> FromBE16(SubSeq(rs.buf, 9, 10))])
        Labels(nl) ==
            IF nl.err # "nil" THEN [rdrr |-> Null, err |-> nl.err, d |-> nl.d]
            ELSE Static(nl, binary_Read(nl.d.rdr, 10))
    IN  Labels(nextRawLabels(dec))

\* The record decoders give [rec, err, lrecs]: the record, the error ("panic"
\* for a slice expression out of range) and the label table afterwards.

\* Decoder.newARecordFromRawRR
newARecordFromRawRR(lrecs, rdrr) ==
    IF Len(rdrr.rData) < 4 THEN [rec |-> Null, err |-> "panic", lrecs |-> lrecs]
    ELSE [rec |-> [kind |-> "A", Common |-> commonFromRawRR(rdrr),
                   Addr |-> SubSeq(rdrr.rData, 1, 4)],
          err |-> "nil", lrecs |-> lrecs]

\* Decoder.newAAAARecordFromRawRR
newAAAARecordFromRawRR(lrecs, rdrr) ==
    IF Len(rdrr.rData) < 16 THEN [rec |-> Null, err |-> "panic", lrecs |-> lrecs]
    ELSE [rec |-> [kind |-> "AAAA", Common |-> commonFromRawRR(rdrr),
                   Addr |-> SubSeq(rdrr.rData, 1, 16)],
          err |-> "nil", lrecs |-> lrecs]

\* newSRVRecordFromRawRR as it would be with the target's labels recorded from
\* the RDATA start, not from 6 bytes after it
newSRVRecordFromRawRR_BaseAtRData(lrecs, rdrr) ==
    LET Target(nl) ==
            IF nl.err # "nil" THEN [rec |-> Null, err |-> nl.err, lrecs |-> nl.lrecs]
            ELSE [rec |-> [kind |-> "SRV", Common |-> commonFromRawRR(rdrr),
                           Priority |-> FromBE16(SubSeq(rdrr.rData, 1, 2)),
                           Weight   |-> FromBE16(SubSeq(rdrr.rData, 3, 4)),
                           Port     |-> FromBE16(SubSeq(rdrr.rData, 5, 6)),
                           Target   |-> rawLabels_toDomain(nl.labels)],
                  err |-> "nil", lrecs |-> nl.lrecs]
    IN  IF Len(rdrr.rData) < 6 THEN [rec |-> Null, err |-> "panic", lrecs |-> lrecs]
        ELSE Target(nextRawLabelsFromReaderWithBaseOffset(
                        NewReader(Slice(rdrr.rData, 7, Len(rdrr.rData))),
                        rdrr.rDataOffsetInMsg, lrecs))

\* Decoder.newSRVRecordFromRawRR
newSRVRecordFromRawRR(lrecs, rdrr) ==
    LET Target(nl) ==
            IF nl.err # "nil" THEN [rec |-> Null, err |-> nl.err, lrecs |-> nl.lrecs]
            ELSE [rec |-> [kind |-> "SRV", Common |-> commonFromRawRR(rdrr),
                           Priority |-> FromBE16(SubSeq(rdrr.rData, 1, 2)),
                           Weight   |-> FromBE16(SubSeq(rdrr.rData, 3, 4)),
                           Port     |-> FromBE16(SubSeq(rdrr.rData, 5, 6)),
                           Target   |-> rawLabels_toDomain(nl.labels)],
                  err |-> "nil", lrecs |-> nl.lrecs]
    IN  IF Len(rdrr.rData) < 6 THEN [rec |-> Null, err |-> "panic", lrecs |-> lrecs]
        ELSE Target(nextRawLabelsFromReaderWithBaseOffset(
                        NewReader(Slice(rdrr.rData, 7, Len(rdrr.rData))),
                        rdrr.rDataOffsetInMsg + 6, lrecs))

\* Decoder.newPTRRecordFromRawRR
newPTRRecordFromRawRR(lrecs, rdrr) ==
    LET PtrDName(nl) ==
            IF nl.err # "nil" THEN [rec |-> Null, err |-> nl.err, lrecs |-> nl.lrecs]
            ELSE [rec |-> [kind |-> "PTR", Common |-> commonFromRawRR(rdrr),
                           PtrDName |-> rawLabels_toDomain(nl.labels)],
                  err |-> "nil", lrecs |-> nl.lrecs]
    IN  PtrDName(nextRawLabelsFromReaderWithBaseOffset(NewReader(rdrr.rData),
                                                       rdrr.rDataOffsetInMsg, lrecs))

RECURSIVE txtLoop(_, _)
\* the loop of newTXTRecordFromRawRR
txtLoop(r, texts) ==
    LET Text(rd) ==
            IF rd.err = "EOF" THEN texts
            ELSE txtLoop(rd.r, Append(texts, rd.buf))
        Length(lb) ==
            IF lb.err = "EOF" THEN texts
            ELSE Text(Reader_Read(lb.r, lb.b))
    IN  Length(Reader_ReadByte(r))

\* Decoder.newTXTRecordFromRawRR
newTXTRecordFromRawRR(lrecs, rdrr) ==
    [rec |-> [kind |-> "TXT", Common |-> commonFromRawRR(rdrr),
              texts |-> txtLoop(NewReader(rdrr.rData), <<>>)],
     err |-> "nil", lrecs |-> lrecs]

\* the types that the octets of one group declare, in the order of the octetNum
\* and bitNum loops
octetTypes(typeGroup, octets) ==
    LET bits == [p \in 1..(8 * Len(octets)) |->
                    [octetNum |-> (p - 1) \div 8, bitNum |-> (p - 1) % 8]]
        set  == SelectSeq(bits, LAMBDA x : Bit(octets[x.octetNum + 1], 7 - x.bitNum) = 1)
    IN  [k \in 1..Len(set) |->
            U16(typeGroup * 256 + set[k].octetNum * 8 + set[k].bitNum)]

\* the octet loop of newNSECRecordFromRawRR: it reads numOctets octets, or those
\* left when ReadByte meets the end; stop is the break out of StopLoop
nsecOctets(r, typeGroup, numOctets, types) ==
    LET Octets(n) ==
            [r     |-> [r EXCEPT !.i = r.i + n],
             types |-> types \o octetTypes(typeGroup, Slice(r.s, r.i + 1, r.i + n)),
             stop  |-> n < numOctets]
    IN  Octets(Min(numOctets, Remaining(r)))

RECURSIVE nsecGroups(_, _)
\* the StopLoop loop of newNSECRecordFromRawRR
nsecGroups(r, types) ==
    LET Octets(oc) ==
            IF oc.stop THEN oc.types ELSE nsecGroups(oc.r, oc.types)
        NumOctets(b1, b2) ==
            IF b2.err = "EOF" THEN types
            ELSE Octets(nsecOctets(b2.r, b1.b, b2.b, types))
        TypeGroup(b1) ==
            IF b1.err = "EOF" THEN types
            ELSE NumOctets(b1, Reader_ReadByte(b1.r))
    IN  TypeGroup(Reader_ReadByte(r))

\* Decoder.newNSECRecordFromRawRR
newNSECRecordFromRawRR(lrecs, rdrr) ==
    LET NextDomainName(nl) ==
            IF nl.err # "nil" THEN [rec |-> Null, err |-> nl.err, lrecs |-> nl.lrecs]
            ELSE [rec |-> [kind |-> "NSEC", Common |-> commonFromRawRR(rdrr),
                           NextDomainName  |-> rawLabels_toDomain(nl.labels),
                           NextDomainTypes |-> SortAsc(nsecGroups(nl.r, <<>>))],
                  err |-> "nil", lrecs |-> nl.lrecs]
    IN  NextDomainName(nextRawLabelsFromReaderWithBaseOffset(
                           NewReader(rdrr.rData), rdrr.rDataOffsetInMsg, lrecs))

\* o.Options[code] = buf
MapPut(m, k, v) == [x \in DOMAIN m \cup {k} |-> IF x = k THEN v ELSE m[x]]

EmptyMap == [x \in {} |-> <<>>]

RECURSIVE optLoop(_, _)
\* the loop of newOPTRecordFromRawRR; the two-byte buffer is reused for the
\* length, so a short read leaves the code's low byte in it
optLoop(r, options) ==
    LET Value(rc, rv) ==
            IF rv.err = "EOF" THEN options
            ELSE optLoop(rv.r, MapPut(options, FromBE16(rc.buf), rv.buf))
        Length(rc, rl) ==
            IF rl.err = "EOF" THEN options
            ELSE Value(rc, Reader_Read(rl.r, FromBE16(rl.buf)))
        Code(rc) ==
            IF rc.err = "EOF" THEN options
            ELSE Length(rc, Reader_ReadInto(rc.r, rc.buf))
    IN  Code(Reader_Read(r, 2))

\* Decoder.newOPTRecordFromRawRR
newOPTRecordFromRawRR(lrecs, rdrr) ==
    [rec |-> [kind |-> "OPT", Common |-> commonFromRawRR(rdrr),
              Options |-> optLoop(NewReader(rdrr.rData), EmptyMap)],
     err |-> "nil", lrecs |-> lrecs]

\* rawRRtoDNSResourceRecord as it would be if a type without a decoder were
\* passed over with its common fields alone, instead of being refused
rawRRtoDNSResourceRecord_SkipUnknown(lrecs, rdrr) ==
    CASE rdrr.static.Type = TypeA    -> newARecordFromRawRR(lrecs, rdrr)
      [] rdrr.static.Type = TypeAAAA -> newAAAARecordFromRawRR(lrecs, rdrr)
      [] rdrr.static.Type = TypeSRV  -> newSRVRecordFromRawRR(lrecs, rdrr)
      [] rdrr.static.Type = TypePTR  -> newPTRRecordFromRawRR(lrecs, rdrr)
      [] rdrr.static.Type = TypeTXT  -> newTXTRecordFromRawRR(lrecs, rdrr)
      [] rdrr.static.Type = TypeNSEC -> newNSECRecordFromRawRR(lrecs, rdrr)
      [] rdrr.static.Type = TypeOPT  -> newOPTRecordFromRawRR(lrecs, rdrr)
      [] OTHER -> [rec |-> [kind |-> "unknown", Common |-> commonFromRawRR(rdrr)],
                   err |-> "nil", lrecs |-> lrecs]

\* Decoder.rawRRtoDNSResourceRecord
rawRRtoDNSResourceRecord(lrecs, rdrr) ==
    CASE rdrr.static.Type = TypeA    -> newARecordFromRawRR(lrecs, rdrr)
      [] rdrr.static.Type = TypeAAAA -> newAAAARecordFromRawRR(lrecs, rdrr)
      [] rdrr.static.Type = TypeSRV  -> newSRVRecordFromRawRR(lrecs, rdrr)
      [] rdrr.static.Type = TypePTR  -> newPTRRecordFromRawRR(lrecs, rdrr)
      [] rdrr.static.Type = TypeTXT  -> newTXTRecordFromRawRR(lrecs, rdrr)
      [] rdrr.static.Type = TypeNSEC -> newNSECRecordFromRawRR(lrecs, rdrr)
      [] rdrr.static.Type = TypeOPT  -> newOPTRecordFromRawRR(lrecs, rdrr)
      [] OTHER -> [rec |-> Null, err |-> "wrapped", lrecs |-> lrecs]

\* Decoder.nextResourceRecord
nextResourceRecord(dec) ==
    LET Typed(raw, res) ==
            [rec |-> res.rec, err |-> res.err,
             d   |-> [raw.d EXCEPT !.labelRecords = res.lrecs]]
        Raw(raw) ==
            IF raw.err # "nil" THEN [rec |-> Null, err |-> raw.err, d |-> raw.d]
            ELSE Typed(raw, rawRRtoDNSResourceRecord(raw.d.labelRecords, raw.rdrr))
    IN  Raw(nextRawDNSResourceRecord(dec))

----------------------------------------------------------------------------
(* Decoder.DecodeDNSMessage, one step per call it makes: the header, then  *)
(* one question, answer or additional record per loop iteration.  A state  *)
(* of the call is [d, dm, err, pc].                                        *)

ZeroHeader ==
    [ID |-> 0, IsResponse |-> FALSE, OpCode |-> 0, Authoritative |-> FALSE,
     Truncated |-> FALSE, RecursionDesired |-> FALSE, RecursionAvailable |-> FALSE,
     ResponseCode |-> 0, NumQuestions |-> 0, NumAnswers |-> 0, NumNameServers |-> 0,
     NumAddlRecords |-> 0]

\* var dm DNSMessage
ZeroMessage ==
    [Hdr |-> ZeroHeader, Questions |-> <<>>, Answers |-> <<>>, Additional |-> <<>>]

\* how DecodeDNSMessage hands on an error of a call it made: wrapped by
\* fmt.Errorf; a panic or a stack overflow is not an error value and unwinds
Wrap(e) == IF e \in {"panic", "crash"} THEN e ELSE "wrapped"

\* DecodeDNSMessage, lines 34-48: the header
DecodeHeaderStep(st) ==
    LET Header(res) ==
            IF res.err # "nil"
            THEN [d |-> res.d, dm |-> ZeroMessage,
                  err |-> IF res.err # "EOF" THEN "wrapped" ELSE "EOF", pc |-> "done"]
            ELSE [d |-> res.d,
                  dm |-> [ZeroMessage EXCEPT !.Hdr = rawDNSHeader_toDNSHeader(res.rdh)],
                  err |-> "nil", pc |-> "body"]
    IN  Header(nextRawDNSHeader(st.d))

MoreQuestions(st)  == Len(st.dm.Questions) < st.dm.Hdr.NumQuestions
MoreAnswers(st)    == Len(st.dm.Answers) < st.dm.Hdr.NumAnswers
MoreAdditional(st) == Len(st.dm.Additional) < st.dm.Hdr.NumAddlRecords

\* DecodeDNSMessage, lines 50-57: one iteration of the question loop
DecodeQuestionStep(st) ==
    LET Question(res) ==
            IF res.err # "nil"
            THEN [st EXCEPT !.d = res.d, !.err = Wrap(res.err), !.pc = "done"]
            ELSE [st EXCEPT !.d = res.d,
                            !.dm.Questions = Append(@, rawDNSQuestion_toQuestion(res.rq))]
    IN  Question(nextRawQuestion(st.d))

\* DecodeDNSMessage, lines 59-67: one iteration of the answer loop
DecodeAnswerStep(st) ==
    LET Answer(res) ==
            IF res.err # "nil"
            THEN [st EXCEPT !.d = res.d, !.err = Wrap(res.err), !.pc = "done"]
            ELSE [st EXCEPT !.d = res.d, !.dm.Answers = Append(@, res.rec)]
    IN  Answer(nextResourceRecord(st.d))

\* DecodeDNSMessage, lines 69-77: one iteration of the additional-record loop
DecodeAdditionalStep(st) ==
    LET Additional(res) ==
            IF res.err # "nil"
            THEN [st EXCEPT !.d = res.d, !.err = Wrap(res.err), !.pc = "done"]
            ELSE [st EXCEPT !.d = res.d, !.dm.Additional = Append(@, res.rec)]
    IN  Additional(nextResourceRecord(st.d))

\* DecodeDNSMessage, line 79: return dm, nil
DecodeReturnStep(st) == [st EXCEPT !.pc = "done"]

Cur == [d |-> d, dm |-> dm, err |-> err, pc |-> pc]

Become(st) ==
    /\ d' = st.d
    /\ dm' = st.dm
    /\ err' = st.err
    /\ pc' = st.pc

DecodeHeader ==
    /\ pc = "hdr"
    /\ Become(DecodeHeaderStep(Cur))
    /\ UNCHANGED <<src, wire>>

DecodeQuestion ==
    /\ pc = "body"
    /\ MoreQuestions(Cur)
    /\ Become(DecodeQuestionStep(Cur))
    /\ UNCHANGED <<src, wire>>

DecodeAnswer ==
    /\ pc = "body"
    /\ ~MoreQuestions(Cur) /\ MoreAnswers(Cur)
    /\ Become(DecodeAnswerStep(Cur))
    /\ UNCHANGED <<src, wire>>

DecodeAdditional ==
    /\ pc = "body"
    /\ ~MoreQuestions(Cur) /\ ~MoreAnswers(Cur) /\ MoreAdditional(Cur)
    /\ Become(DecodeAdditionalStep(Cur))
    /\ UNCHANGED <<src, wire>>

DecodeReturn ==
    /\ pc = "body"
    /\ ~MoreQuestions(Cur) /\ ~MoreAnswers(Cur) /\ ~MoreAdditional(Cur)
    /\ Become(DecodeReturnStep(Cur))
    /\ UNCHANGED <<src, wire>>

DecodeDNSMessage ==
    DecodeHeader \/ DecodeQuestion \/ DecodeAnswer \/ DecodeAdditional \/ DecodeReturn

----------------------------------------------------------------------------
(* Input values.                                                           *)

Bools == {TRUE, FALSE}

MaxLabels   == 2    \* labels per sampled domain name
MaxLabelLen == 2    \* length of the short sampled labels

Rep(c, n) == [k \in 1..n |-> c]

Alphabet == {97, 98}

\* labels a well-formed name is made of: short runs, a mixed one, and the longest
GoodLabels ==
    {Rep(c, n) : c \in Alphabet, n \in 1..MaxLabelLen} \cup {<<97, 98>>, Rep(120, 63)}

\* segments no well-formed name has: empty, and longer than 63 bytes
BadLabels == {<<>>, Rep(121, 64), Rep(122, 257)}

DomainsOf(labels, n) ==
    UNION {{Join(ls) : ls \in [1..k -> labels]} : k \in 1..n}

\* a dotted name of one or more labels of 1..63 bytes, at most 255 bytes in all
WellFormedDomain(dom) ==
    /\ Len(dom) <= 255
    /\ LET segs == Split(dom)
       IN  \A k \in 1..Len(segs) : Len(segs[k]) \in 1..63

\* a dotted name of one or more labels of 1..63 bytes
WellFormedLabels(dom) ==
    LET segs == Split(dom)
    IN  \A k \in 1..Len(segs) : Len(segs[k]) \in 1..63

HeaderNumbers ==
    {<<0, 0, 0, 0, 0>>, <<43981, 1, 2, 3, 4>>, <<65535, 65535, 256, 255, 65280>>}

\* OpCode and ResponseCode are uint8 in the code; 0..15 fit their 4-bit fields
OpCodes == 0..17 \cup {255}
ResponseCodes == 0..23

Headers ==
    {[ID |-> n[1], IsResponse |-> f[1], OpCode |-> op, Authoritative |-> f[2],
      Truncated |-> f[3], RecursionDesired |-> f[4], RecursionAvailable |-> f[5],
      ResponseCode |-> rc, NumQuestions |-> n[2], NumAnswers |-> n[3],
      NumNameServers |-> n[4], NumAddlRecords |-> n[5]] :
        n \in HeaderNumbers, f \in [1..5 -> Bools], op \in OpCodes, rc \in ResponseCodes}

QuestionDomains == DomainsOf(GoodLabels \cup BadLabels, MaxLabels) 

Questions ==
    {[Domain |-> dom, Type |-> ty, Class |-> cl, AcceptUnicastResponse |-> u] :
        dom \in QuestionDomains, ty \in {12, 65535}, cl \in {1, 32767, 32769},
        u \in Bools}

----------------------------------------------------------------------------
(* Header round trip: DNSHeader.toBytes, then Decoder.nextRawDNSHeader and  *)
(* rawDNSHeader.toDNSHeader on a fresh Decoder (TestHeaderRoundtrip).      *)

InitHdr ==
    /\ src \in Headers
    /\ wire = Null
    /\ d = NewDecoder(<<>>)
    /\ pc = "encode"
    /\ dm = Null
    /\ err = "nil"

HdrEncode ==
    /\ pc = "encode"
    /\ wire' = [b |-> DNSHeader_toBytes(src), err |-> "nil"]
    /\ d' = NewDecoder(wire'.b)
    /\ pc' = "decode"
    /\ UNCHANGED <<src, dm, err>>

HdrDecode ==
    /\ pc = "decode"
    /\ LET res == nextRawDNSHeader(d)
       IN  /\ d' = res.d
           /\ err' = res.err
           /\ dm' = IF res.err = "nil" THEN rawDNSHeader_toDNSHeader(res.rdh) ELSE Null
    /\ pc' = "done"
    /\ UNCHANGED <<src, wire>>

NextHdr == HdrEncode \/ HdrDecode

SpecHdr == InitHdr /\ [][NextHdr]_vars

\* DNSHeader.equal: the twelve fields the round-trip test compares
HeaderEqual(a, b) ==
    /\ a.ID = b.ID
    /\ a.IsResponse = b.IsResponse
    /\ a.OpCode = b.OpCode
    /\ a.Authoritative = b.Authoritative
    /\ a.Truncated = b.Truncated
    /\ a.RecursionDesired = b.RecursionDesired
    /\ a.RecursionAvailable = b.RecursionAvailable
    /\ a.ResponseCode = b.ResponseCode
    /\ a.NumQuestions = b.NumQuestions
    /\ a.NumAnswers = b.NumAnswers
    /\ a.NumNameServers = b.NumNameServers
    /\ a.NumAddlRecords = b.NumAddlRecords

\* C1: for every header whose OpCode and ResponseCode are in 0..15, decoding
\* the 12 encoded bytes succeeds and gives a header equal to it in all twelve
\* fields.
C1_HeaderRoundTrip ==
    (pc = "done" /\ src.OpCode \in 0..15 /\ src.ResponseCode \in 0..15)
        => /\ Len(wire.b) = 12
           /\ err = "nil"
           /\ HeaderEqual(src, dm)

C1_Witness ==
    /\ pc = "done"
    /\ src.OpCode = 15 /\ src.ResponseCode = 15 /\ src.ID = 43981
    /\ src.IsResponse /\ ~src.Authoritative /\ src.RecursionAvailable
    /\ err = "nil" /\ dm.OpCode = 15 /\ dm.ResponseCode = 15 /\ dm.NumAddlRecords = 4

\* C16: for every header, OpCode and ResponseCode any 8-bit value, the encoding
\* is 12 bytes, big endian: the id, the two flag bytes and the four counts.  Bit 7
\* of flag byte 0 is set exactly when IsResponse is true, its bits 2, 1, 0 exactly
\* when Authoritative, Truncated, RecursionDesired are, and bit 7 of flag byte 1
\* exactly when RecursionAvailable is; the opcode is in bits 6-3 of flag byte 0
\* and the response code in bits 3-0 of flag byte 1, and in no other bit.
C16_HeaderFlagLayout ==
    pc # "encode"
        => /\ Len(wire.b) = 12
           /\ SubSeq(wire.b, 1, 2) = BE16(src.ID)
           /\ SubSeq(wire.b, 5, 12) = BE16(src.NumQuestions) \o BE16(src.NumAnswers)
                                         \o BE16(src.NumNameServers)
                                         \o BE16(src.NumAddlRecords)
           /\ Bit(wire.b[3], 7) = 1 <=> src.IsResponse
           /\ Bit(wire.b[3], 2) = 1 <=> src.Authoritative
           /\ Bit(wire.b[3], 1) = 1 <=> src.Truncated
           /\ Bit(wire.b[3], 0) = 1 <=> src.RecursionDesired
           /\ Shr(wire.b[3], 3) % 16 = src.OpCode % 16
           /\ Bit(wire.b[4], 7) = 1 <=> src.RecursionAvailable
           /\ Shr(wire.b[4], 4) % 8 = 0
           /\ wire.b[4] % 16 = src.ResponseCode % 16

\* the ResponseCode constants: CodeSuccess..CodeNotZone, CodeBadSig..CodeBadCookie
ResponseCodeConstants == 0..10 \cup 16..23

\* C29: a header carrying any of the ResponseCode constants of the package
\* encodes to 12 bytes that decode to a header with the same ResponseCode.
C29_ResponseCodeConstants ==
    (pc = "done" /\ src.ResponseCode \in ResponseCodeConstants)
        => /\ Len(wire.b) = 12
           /\ err = "nil"
           /\ dm.ResponseCode = src.ResponseCode

----------------------------------------------------------------------------
(* Question round trip: DNSQuestion.toBytes, then Decoder.nextRawQuestion   *)
(* and rawDNSQuestion.toQuestion on a fresh Decoder (TestQuestionRoundtrip).*)

InitQ ==
    /\ src \in Questions
    /\ wire = Null
    /\ d = NewDecoder(<<>>)
    /\ pc = "encode"
    /\ dm = Null
    /\ err = "nil"

QEncode ==
    /\ pc = "encode"
    /\ wire' = [b |-> DNSQuestion_toBytes(src), err |-> "nil"]
    /\ d' = NewDecoder(wire'.b)
    /\ pc' = "decode"
    /\ UNCHANGED <<src, dm, err>>

QDecode ==
    /\ pc = "decode"
    /\ LET res == nextRawQuestion(d)
       IN  /\ d' = res.d
           /\ err' = res.err
           /\ dm' = IF res.err = "nil" THEN rawDNSQuestion_toQuestion(res.rq) ELSE Null
    /\ pc' = "done"
    /\ UNCHANGED <<src, wire>>

NextQ == QEncode \/ QDecode

SpecQ == InitQ /\ [][NextQ]_vars

\* C2: a question with a well-formed Domain and a Class below 32768 decodes,
\* from its own encoding and with a fresh Decoder, to an equal question.
C2_QuestionRoundTrip ==
    (pc = "done" /\ WellFormedDomain(src.Domain) /\ src.Class < 32768)
        => /\ err = "nil"
           /\ dm.Domain = src.Domain
           /\ dm.Type = src.Type
           /\ dm.Class = src.Class
           /\ dm.AcceptUnicastResponse = src.AcceptUnicastResponse

C2_Witness ==
    /\ pc = "done"
    /\ src.Domain = Rep(120, 63) \o <<Dot>> \o <<97, 98>>
    /\ src.Class = 32767 /\ src.AcceptUnicastResponse /\ src.Type = 65535
    /\ err = "nil" /\ dm.Domain = src.Domain /\ dm.AcceptUnicastResponse

\* C27: the empty name "" is encoded as the single root byte, so the question
\* that carries it is that byte and its four static bytes, and decoding them
\* gives the question back and leaves nothing unread.
C27_RootNameOneByte ==
    (pc # "encode" /\ src.Domain = <<>>)
        => /\ wire.b = <<0>> \o BE16(src.Type)
                           \o BE16(IF src.AcceptUnicastResponse /\ src.Class < 32768
                                   THEN src.Class + 32768 ELSE src.Class)
           /\ pc = "done"
                 => /\ err = "nil"
                    /\ dm.Domain = <<>>
                    /\ dm.Type = src.Type
                    /\ Remaining(d.rdr.reader) = 0


----------------------------------------------------------------------------
(* Message round trip: DNSMessage.ToBytes, then DecodeDNSMessage on a      *)
(* fresh Decoder over the bytes (the Test*Record_roundtrip tests).         *)

MaxTexts   == 2    \* texts per sampled TXT record
MaxTypes   == 2    \* type codes per sampled NSEC record
MaxOptions == 2    \* options per sampled OPT record

OwnerDomains ==
    {<<97>>, <<97, 98, Dot, 98>>, Rep(120, 63) \o <<Dot, 97>>, <<>>, Rep(121, 64)}

TargetDomains ==
    {<<98>>, <<98, Dot, 97, 98>>, Rep(120, 63), <<>>, <<98, Dot, Dot, 97>>}

CommonNumbers ==
    {[Class |-> 1,     CacheFlush |-> TRUE,  TTL |-> <<0, 120>>],
     [Class |-> 32767, CacheFlush |-> FALSE, TTL |-> <<65535, 65535>>],
     [Class |-> 32769, CacheFlush |-> FALSE, TTL |-> <<0, 0>>],
     [Class |-> 0,     CacheFlush |-> TRUE,  TTL |-> <<1, 0>>]}

Commons(types, doms, nums) ==
    {[Domain |-> dom, Type |-> ty, Class |-> n.Class, CacheFlush |-> n.CacheFlush,
      TTL |-> n.TTL] : dom \in doms, ty \in types, n \in nums}

\* a plain common header, for the kinds whose samples vary in their RDATA
PlainCommons(ty) ==
    Commons({ty}, {<<97>>, <<97, 98, Dot, 98>>},
            {[Class |-> 1, CacheFlush |-> TRUE, TTL |-> <<0, 120>>]})

KindType(kind) ==
    CASE kind = "A" -> TypeA [] kind = "AAAA" -> TypeAAAA [] kind = "SRV" -> TypeSRV
      [] kind = "PTR" -> TypePTR [] kind = "TXT" -> TypeTXT [] kind = "NSEC" -> TypeNSEC
      [] kind = "OPT" -> TypeOPT

IPv4Mapped == Zeros(10) \o <<255, 255, 10, 9, 5, 4>>

ARecords ==
    {[kind |-> "A", Common |-> c, Addr |-> a] :
        c \in Commons({TypeA, TypeTXT}, OwnerDomains, CommonNumbers),
        a \in {<<1, 2, 3, 4>>, <<255, 0, 0, 192>>, IPv4Mapped, <<1, 2, 3>>,
                [k \in 1..16 |-> k]}}

AAAARecords ==
    {[kind |-> "AAAA", Common |-> c, Addr |-> a] :
        c \in Commons({TypeAAAA, TypeA}, OwnerDomains, CommonNumbers),
        a \in {[k \in 1..16 |-> k], IPv4Mapped, <<1, 2, 3, 4>>}}

SRVRecords ==
    {[kind |-> "SRV", Common |-> c, Priority |-> n[1], Weight |-> n[2], Port |-> n[3],
      Target |-> tg] :
        c \in Commons({TypeSRV, TypePTR}, OwnerDomains, CommonNumbers),
        n \in {<<0, 0, 7000>>, <<65535, 258, 1>>}, tg \in TargetDomains}

PTRRecords ==
    {[kind |-> "PTR", Common |-> c, PtrDName |-> tg] :
        c \in Commons({TypePTR, TypeSRV}, OwnerDomains, CommonNumbers),
        tg \in TargetDomains}

SeqsUpTo(S, n) == UNION {[1..k -> S] : k \in 0..n}

TextSamples == {<<>>, <<97>>, <<61, 98>>, Rep(122, 255), Rep(122, 256)}

TXTRecords ==
    {[kind |-> "TXT", Common |-> c, texts |-> ts] :
        c \in PlainCommons(TypeTXT), ts \in SeqsUpTo(TextSamples, MaxTexts)}

TypeSamples == {1, 12, 15, 33, 1234, 65535}

\* the types of the example of RFC 4034, section 4.3: A, MX, RRSIG, NSEC, 1234
RFCTypes == <<1, 15, 46, 47, 1234>>

NoDuplicates(s) == \A i, j \in 1..Len(s) : i # j => s[i] # s[j]

NSECRecords ==
    {[kind |-> "NSEC", Common |-> c, NextDomainName |-> nd, NextDomainTypes |-> ts] :
        c \in PlainCommons(TypeNSEC), nd \in {<<98>>, <<98, Dot, 97, 98>>},
        ts \in {s \in SeqsUpTo(TypeSamples, MaxTypes) : NoDuplicates(s)}
                  \cup {RFCTypes}}

OptionCodes == {4, 258, 65535}

OptionValues == {<<>>, <<7>>, <<0, 0, 0, 0, 0, 0, 0, 0, 112, 49, 254, 183, 0, 0>>}

OptionMaps ==
    UNION {[codes -> OptionValues] :
              codes \in {c \in SUBSET OptionCodes : Cardinality(c) <= MaxOptions}}

OPTRecords ==
    {[kind |-> "OPT", Common |-> c, Options |-> o] :
        c \in Commons({TypeOPT}, {<<>>, <<97>>},
                      {[Class |-> 1440, CacheFlush |-> FALSE, TTL |-> <<0, 4500>>]}),
        o \in OptionMaps}

Records ==
    ARecords \cup AAAARecords \cup SRVRecords \cup PTRRecords \cup TXTRecords
        \cup NSECRecords \cup OPTRecords

\* a message whose header counts are the lengths of its lists
MessageOf(qs, ans, adds) ==
    [Hdr |-> [ZeroHeader EXCEPT !.NumQuestions = Len(qs), !.NumAnswers = Len(ans),
                                !.NumAddlRecords = Len(adds)],
     Questions |-> qs, Answers |-> ans, Additional |-> adds]

SampleQuestion ==
    [Domain |-> <<97, 98, Dot, 98>>, Type |-> 255, Class |-> 1,
     AcceptUnicastResponse |-> TRUE]

SampleA ==
    [kind |-> "A",
     Common |-> [Domain |-> <<97>>, Type |-> TypeA, Class |-> 1, CacheFlush |-> TRUE,
                 TTL |-> <<0, 120>>],
     Addr |-> <<10, 9, 5, 4>>]

FullMessages ==
    {MessageOf(<<SampleQuestion>>, <<r>>, <<SampleA>>) :
        r \in {x \in Records : x.Common.Domain = <<97>> /\ x.Common.Class = 1}}
    \cup
    {MessageOf(<<SampleQuestion>>, <<SampleA>>, <<r>>) :
        r \in {x \in Records : x.Common.Domain = <<97>> /\ x.Common.Class = 1}}

\* a message with two entries in each of its lists
OrderedMessage ==
    MessageOf(<<SampleQuestion,
                [Domain |-> <<98>>, Type |-> TypePTR, Class |-> 1,
                 AcceptUnicastResponse |-> FALSE]>>,
              <<SampleA,
                [kind |-> "PTR",
                 Common |-> [Domain |-> <<98>>, Type |-> TypePTR, Class |-> 1,
                             CacheFlush |-> FALSE, TTL |-> <<0, 10>>],
                 PtrDName |-> <<97>>]>>,
              <<[kind |-> "SRV",
                 Common |-> [Domain |-> <<97, 98>>, Type |-> TypeSRV, Class |-> 1,
                             CacheFlush |-> TRUE, TTL |-> <<0, 120>>],
                 Priority |-> 0, Weight |-> 0, Port |-> 7000, Target |-> <<97>>],
                SampleA>>)

Messages ==
    {MessageOf(<<>>, <<r>>, <<>>) : r \in Records} \cup FullMessages \cup {OrderedMessage}

InitMsg ==
    /\ src \in Messages
    /\ wire = Null
    /\ d = NewDecoder(<<>>)
    /\ pc = "encode"
    /\ dm = ZeroMessage
    /\ err = "nil"

MsgEncode ==
    /\ pc = "encode"
    /\ wire' = DNSMessage_ToBytes(src)
    /\ d' = NewDecoder(wire'.b)
    /\ pc' = "hdr"
    /\ UNCHANGED <<src, dm, err>>

NextMsg == MsgEncode \/ DecodeDNSMessage

SpecMsg == InitMsg /\ [][NextMsg]_vars

\* a message that declares and holds one answer and nothing else
OneAnswer(m) ==
    /\ m.Hdr.NumQuestions = 0 /\ m.Hdr.NumAnswers = 1 /\ m.Hdr.NumAddlRecords = 0
    /\ m.Questions = <<>> /\ Len(m.Answers) = 1 /\ m.Additional = <<>>

\* the record's type code is that of its variant, its owner name is well formed
\* and its class fits 15 bits
WellFormedCommon(rec) ==
    /\ rec.Common.Type = KindType(rec.kind)
    /\ WellFormedLabels(rec.Common.Domain)
    /\ rec.Common.Class < 32768

WellFormedAddrRecord(rec) ==
    /\ WellFormedCommon(rec)
    /\ \/ rec.kind = "A" /\ Len(rec.Addr) = 4
       \/ rec.kind = "AAAA" /\ Len(rec.Addr) = 16
       \/ rec.kind = "SRV" /\ WellFormedLabels(rec.Target)
       \/ rec.kind = "PTR" /\ WellFormedLabels(rec.PtrDName)

\* C3: a message with one well-formed A, AAAA, SRV or PTR answer decodes, from
\* the output of ToBytes, without error and with Answers[0] of the same variant
\* and equal in every field.
C3_RecordRoundTrip ==
    (pc = "done" /\ OneAnswer(src) /\ WellFormedAddrRecord(src.Answers[1]))
        => /\ wire.err = "nil"
           /\ err = "nil"
           /\ Len(dm.Answers) = 1
           /\ dm.Answers[1] = src.Answers[1]

C3_Witness ==
    /\ pc = "done" /\ OneAnswer(src) /\ WellFormedAddrRecord(src.Answers[1])
    /\ src.Answers[1].kind = "SRV"
    /\ src.Answers[1].Target = <<98, Dot, 97, 98>>
    /\ src.Answers[1].Common.Domain = Rep(120, 63) \o <<Dot, 97>>
    /\ src.Answers[1].Common.Class = 32767
    /\ src.Answers[1].Priority = 65535
    /\ err = "nil" /\ dm.Answers[1].Target = <<98, Dot, 97, 98>>
    /\ dm.Answers[1].Port = 1

\* C4: a message with one TXT answer whose texts are any sequence, possibly
\* empty, of strings of 0..255 bytes decodes, from the output of ToBytes,
\* without error and to a TXT record with the same texts in the same order.
C4_TXTRoundTrip ==
    (/\ pc = "done" /\ OneAnswer(src)
     /\ src.Answers[1].kind = "TXT" /\ WellFormedCommon(src.Answers[1])
     /\ \A k \in 1..Len(src.Answers[1].texts) : Len(src.Answers[1].texts[k]) <= 255)
        => /\ wire.err = "nil"
           /\ err = "nil"
           /\ Len(dm.Answers) = 1
           /\ dm.Answers[1].kind = "TXT"
           /\ dm.Answers[1].texts = src.Answers[1].texts

\* C5: an NSEC record whose NextDomainTypes is a duplicate-free list in any
\* order decodes, from its encoding, to the same NextDomainName and to the
\* ascending sort of the list.
C5_NSECRoundTrip ==
    (/\ pc = "done" /\ OneAnswer(src)
     /\ src.Answers[1].kind = "NSEC" /\ WellFormedCommon(src.Answers[1])
     /\ WellFormedLabels(src.Answers[1].NextDomainName)
     /\ NoDuplicates(src.Answers[1].NextDomainTypes))
        => /\ err = "nil"
           /\ Len(dm.Answers) = 1
           /\ dm.Answers[1].kind = "NSEC"
           /\ dm.Answers[1].NextDomainName = src.Answers[1].NextDomainName
           /\ dm.Answers[1].NextDomainTypes = SortAsc(src.Answers[1].NextDomainTypes)

\* the dotted name has a segment longer than 63 bytes
HasLongSegment(dom) ==
    LET segs == Split(dom)
    IN  \E k \in 1..Len(segs) : Len(segs[k]) > 63

\* the names a record holds: its owner name and the name in its RDATA
RecordNames(rec) ==
    {rec.Common.Domain}
        \cup (IF rec.kind = "SRV" THEN {rec.Target} ELSE {})
        \cup (IF rec.kind = "PTR" THEN {rec.PtrDName} ELSE {})
        \cup (IF rec.kind = "NSEC" THEN {rec.NextDomainName} ELSE {})

\* the names a message holds
MessageNames(m) ==
    {m.Questions[k].Domain : k \in 1..Len(m.Questions)}
        \cup UNION {RecordNames(m.Answers[k]) : k \in 1..Len(m.Answers)}
        \cup UNION {RecordNames(m.Additional[k]) : k \in 1..Len(m.Additional)}

\* C10: encoding a message one of whose names has a segment longer than 63
\* bytes returns an error.
C10_LongSegmentRejected ==
    (pc # "encode" /\ \E dom \in MessageNames(src) : HasLongSegment(dom))
        => wire.err # "nil"

\* a name written in full: each label as its length and its bytes, then the
\* root byte
LiteralName(dom) ==
    Concat([k \in 1..Len(Split(dom)) |-> <<Len(Split(dom)[k])>> \o Split(dom)[k]])
        \o <<0>>

\* the class with its top bit set when the flag is
ClassWithFlag(class, flag) == IF flag /\ class < 32768 THEN class + 32768 ELSE class

\* a question with its name written in full
QuestionOnWire(q) ==
    LiteralName(q.Domain) \o BE16(q.Type)
        \o BE16(ClassWithFlag(q.Class, q.AcceptUnicastResponse))

\* the RDATA of a record with the name it holds written in full
RDataOnWireOf(rec) ==
    CASE rec.kind = "SRV"  -> BE16(rec.Priority) \o BE16(rec.Weight) \o BE16(rec.Port)
                                  \o LiteralName(rec.Target)
      [] rec.kind = "PTR"  -> LiteralName(rec.PtrDName)
      [] rec.kind = "NSEC" -> LiteralName(rec.NextDomainName)
                                  \o NSECRecord_writeBitMap(rec.NextDomainTypes).b
      [] OTHER             -> toRawDNSResourceRecord(rec).rData

\* a record with its names written in full
RecordOnWire(rec) ==
    LiteralName(rec.Common.Domain) \o BE16(rec.Common.Type)
        \o BE16(ClassWithFlag(rec.Common.Class, rec.Common.CacheFlush))
        \o BE32(rec.Common.TTL)
        \o BE16(toRawDNSResourceRecord(rec).static.RDataLength)
        \o RDataOnWireOf(rec)

\* C20: the output of ToBytes is the 12 header bytes, then the encoding of each
\* question, of each answer and of each additional record, in list order, with
\* nothing between or after them; every name of one or more labels of 1..63
\* bytes is in it in full, as literal labels followed by the root byte.
C20_EncodeOrder ==
    pc # "encode"
        => /\ wire.err = "nil"
           /\ wire.b = DNSHeader_toBytes(src.Hdr)
                \o Concat([k \in 1..Len(src.Questions) |->
                              DNSQuestion_toBytes(src.Questions[k])])
                \o Concat([k \in 1..Len(src.Answers) |->
                              rawResourceRecord_toBytes(
                                  toRawDNSResourceRecord(src.Answers[k]))])
                \o Concat([k \in 1..Len(src.Additional) |->
                              rawResourceRecord_toBytes(
                                  toRawDNSResourceRecord(src.Additional[k]))])
           /\ (\A dom \in MessageNames(src) : WellFormedLabels(dom))
                  => wire.b = DNSHeader_toBytes(src.Hdr)
                       \o Concat([k \in 1..Len(src.Questions) |->
                                     QuestionOnWire(src.Questions[k])])
                       \o Concat([k \in 1..Len(src.Answers) |->
                                     RecordOnWire(src.Answers[k])])
                       \o Concat([k \in 1..Len(src.Additional) |->
                                     RecordOnWire(src.Additional[k])])

\* a message of two questions, two answers and two additional records has been
\* written as 102 bytes: header, b's and ab.b's questions, the A and PTR answers,
\* then the SRV and A additional records, every name in full
C20_Witness ==
    /\ pc = "done"
    /\ src = OrderedMessage
    /\ wire.b = <<0, 0, 0, 0, 0, 2, 0, 2, 0, 0, 0, 2>>
                  \o <<2, 97, 98, 1, 98, 0, 0, 255, 128, 1>>
                  \o <<1, 98, 0, 0, 12, 0, 1>>
                  \o <<1, 97, 0, 0, 1, 128, 1, 0, 0, 0, 120, 0, 4, 10, 9, 5, 4>>
                  \o <<1, 98, 0, 0, 12, 0, 1, 0, 0, 0, 10, 0, 3, 1, 97, 0>>
                  \o <<2, 97, 98, 0, 0, 33, 128, 1, 0, 0, 0, 120, 0, 9,
                        0, 0, 0, 0, 27, 88, 1, 97, 0>>
                  \o <<1, 97, 0, 0, 1, 128, 1, 0, 0, 0, 120, 0, 4, 10, 9, 5, 4>>

----------------------------------------------------------------------------
(* Record round trip below the message: toRawDNSResourceRecord, then the    *)
(* record decoder on the rawResourceRecord it returned, as                  *)
(* TestOPTRecord_toRawDNSResourceRecord does.                               *)

InitRR ==
    /\ src \in Records
    /\ wire = Null
    /\ d = NewDecoder(<<>>)
    /\ pc = "encode"
    /\ dm = Null
    /\ err = "nil"

RREncode ==
    /\ pc = "encode"
    /\ wire' = [rrr |-> toRawDNSResourceRecord(src), err |-> "nil"]
    /\ pc' = "decode"
    /\ UNCHANGED <<src, d, dm, err>>

RRDecode ==
    /\ pc = "decode"
    /\ LET res == rawRRtoDNSResourceRecord(d.labelRecords, wire.rrr)
       IN  /\ d' = [d EXCEPT !.labelRecords = res.lrecs]
           /\ dm' = res.rec
           /\ err' = res.err
    /\ pc' = "done"
    /\ UNCHANGED <<src, wire>>

NextRR == RREncode \/ RRDecode

SpecRR == InitRR /\ [][NextRR]_vars

\* C6: for every option map, values of any length including zero, the RDATA
\* that OPTRecord.toRawDNSResourceRecord produces decodes with
\* newOPTRecordFromRawRR to a map with the same codes and the same value for
\* each code.
C6_OPTRoundTrip ==
    (pc = "done" /\ src.kind = "OPT")
        => /\ err = "nil"
           /\ dm.kind = "OPT"
           /\ DOMAIN dm.Options = DOMAIN src.Options
           /\ \A code \in DOMAIN src.Options : dm.Options[code] = src.Options[code]

RECURSIVE AscendingSeq(_)
\* the numbers of a set in ascending order
AscendingSeq(S) ==
    IF S = {} THEN <<>>
    ELSE LET low == CHOOSE x \in S : \A y \in S : x <= y
         IN  <<low>> \o AscendingSeq(S \ {low})

StrictlyAscending(s) == \A i \in 1..(Len(s) - 1) : s[i] < s[i + 1]

RECURSIVE BitmapOctet(_, _, _)
\* the octet whose bit 7 - b is set exactly when type base + b is in T, from bit
\* number b on
BitmapOctet(T, base, b) ==
    IF b > 7 THEN 0
    ELSE (IF base + b \in T THEN Pow2(7 - b) ELSE 0) + BitmapOctet(T, base, b + 1)

\* RFC 4034, section 4.1.2: window w of the type set T
BitmapWindow(T, w) ==
    LET used == {(t % 256) \div 8 : t \in {x \in T : x \div 256 = w}}
        high == CHOOSE i \in used : \A j \in used : j <= i
    IN  <<w, high + 1>> \o [i \in 1..(high + 1) |-> BitmapOctet(T, w * 256 + (i - 1) * 8, 0)]

\* the type bitmap of the type set T: its windows in ascending order
TypeBitmap(T) ==
    LET windows == AscendingSeq({t \div 256 : t \in T})
    IN  Concat([k \in 1..Len(windows) |-> BitmapWindow(T, windows[k])])

\* the RDATA of an NSEC record after its next domain name
BitmapWritten(rec, rrr) ==
    Slice(rrr.rData, Len(rawLabels_toBytes(domain_toRawLabels(rec.NextDomainName))) + 1,
          Len(rrr.rData))

\* C17: for an NSEC record whose type list is ascending and free of duplicates,
\* the bytes written after the next domain name are, window by window in
\* ascending order, the window number, the number of the highest octet with a
\* bit set plus one, and that many octets with bit 7 - (t mod 8) of octet
\* (t mod 256) div 8 set exactly for the types t of the list; for the types
\* 1, 15, 46, 47, 1234 they are 00 06 40 01 00 00 00 03 04 1b, 26 zero octets
\* and 20.
C17_NSECBitmap ==
    (pc # "encode" /\ src.kind = "NSEC" /\ StrictlyAscending(src.NextDomainTypes))
        => /\ BitmapWritten(src, wire.rrr)
                  = TypeBitmap({src.NextDomainTypes[k] : k \in DOMAIN src.NextDomainTypes})
           /\ src.NextDomainTypes = RFCTypes
                  => BitmapWritten(src, wire.rrr)
                         = <<0, 6, 64, 1, 0, 0, 0, 3, 4, 27>> \o Zeros(26) \o <<32>>

C17_Witness ==
    /\ pc = "done" /\ src.kind = "NSEC" /\ src.NextDomainTypes = RFCTypes
    /\ src.NextDomainName = <<98, Dot, 97, 98>>
    /\ wire.rrr.rData = <<1, 98, 2, 97, 98, 0>> \o <<0, 6, 64, 1, 0, 0, 0, 3, 4, 27>>
                            \o Zeros(26) \o <<32>>
    /\ wire.rrr.static.RDataLength = 43

\* one option on the wire: the code and the length of the value, two bytes each,
\* high byte first, then the value
OptionTuple(code, value) ==
    <<code \div 256, code % 256, Len(value) \div 256, Len(value) % 256>> \o value

\* C18: the RDATA of an OPT record is the option tuples (code, value length,
\* value) of its map entries, one for each entry, in strictly ascending order
\* of the code, and nothing else.
C18_OPTAscending ==
    (pc # "encode" /\ src.kind = "OPT")
        => LET codes == AscendingSeq(DOMAIN src.Options)
           IN  wire.rrr.rData
                   = Concat([k \in 1..Len(codes) |->
                                OptionTuple(codes[k], src.Options[codes[k]])])

C18_Witness ==
    /\ pc = "done" /\ src.kind = "OPT"
    /\ DOMAIN src.Options = {258, 4}
    /\ src.Options[4] = <<7>> /\ src.Options[258] = <<>>
    /\ wire.rrr.rData = <<0, 4, 0, 1, 7, 1, 2, 0, 0>>

\* the bytes of an encoded record after its RDATA length field
RDataOnWire(rrr) ==
    Slice(rawResourceRecord_toBytes(rrr),
          Len(rawLabels_toBytes(rrr.domainLabels)) + 11,
          Len(rawResourceRecord_toBytes(rrr)))

\* C19: for a record of any variant, the RDataLength that
\* toRawDNSResourceRecord sets is the number of RDATA bytes it produced, and
\* the length field of the encoded record is the number of bytes after it.
C19_RDataLengthMatches ==
    pc # "encode"
        => /\ wire.rrr.static.RDataLength = Len(wire.rrr.rData)
           /\ wire.rrr.static.RDataLength = Len(RDataOnWire(wire.rrr))

----------------------------------------------------------------------------
(* Messages as they arrive from the network: names may end in a compression *)
(* pointer, or hold a length byte that is neither a length nor a pointer.   *)
(* A message is laid out from a list of entries (a question or a record);   *)
(* each name field is [lits, tail]: literal labels, then the root byte, a   *)
(* pointer to label number "label" of the earlier name field number "name", *)
(* or an illegal length byte followed by as many bytes as it would announce *)
(* and a root byte.                                                         *)

MaxVaried == 2    \* name fields of a message that differ from the plain ones

RootTail == [kind |-> "root"]

PtrTail(j, k) == [kind |-> "ptr", name |-> j, label |-> k]

BadTail(x) == [kind |-> "bad", byte |-> x]

\* the bytes of literal labels
LiteralBytes(lits) == Concat([k \in 1..Len(lits) |-> <<Len(lits[k])>> \o lits[k]])

\* the offset of label k of a placed name
LabelOffset(placed, k) == placed.off + Len(LiteralBytes(SubSeq(placed.lits, 1, k - 1)))

\* the bytes that end a name, given the names placed before it
TailBytes(names, tail) ==
    CASE tail.kind = "root" -> <<0>>
      [] tail.kind = "ptr"  ->
            <<192 + (LabelOffset(names[tail.name], tail.label) \div 256),
              LabelOffset(names[tail.name], tail.label) % 256>>
      [] tail.kind = "bad"  -> <<tail.byte>> \o Rep(120, tail.byte) \o <<0>>

\* the labels a name stands for: its literal labels, then the suffix of the
\* earlier name that its pointer selects
TailLabels(names, tail) ==
    IF tail.kind = "ptr"
    THEN SubSeq(names[tail.name].labels, tail.label, Len(names[tail.name].labels))
    ELSE <<>>

NameLength(nm) ==
    Len(LiteralBytes(nm.lits))
        + (CASE nm.tail.kind = "root" -> 1
             [] nm.tail.kind = "ptr"  -> 2
             [] nm.tail.kind = "bad"  -> 1 + nm.tail.byte + 1)

\* lay a name at the end of the bytes so far
PlaceName(st, nm) ==
    [st EXCEPT !.b = @ \o LiteralBytes(nm.lits) \o TailBytes(st.names, nm.tail),
               !.names = Append(@, [off    |-> Len(st.b),
                                    lits   |-> nm.lits,
                                    labels |-> nm.lits \o TailLabels(st.names, nm.tail)]),
               !.bad = @ \/ nm.tail.kind = "bad"]

PlaceBytes(st, bytes) == [st EXCEPT !.b = @ \o bytes]

\* an entry is done: note the first entry that holds an illegal length byte
EndEntry(st) ==
    [st EXCEPT !.entries = @ + 1,
               !.badAt = IF @ = 0 /\ st.bad THEN st.entries + 1 ELSE @]

\* lay one entry; names is the list of the name fields still to place
PlaceEntry(st, e, names) ==
    IF e.sec = "q"
    THEN EndEntry(PlaceBytes(PlaceName(st, names[1]), BE16(e.Type) \o BE16(e.Class)))
    ELSE LET RData(afterStatic) ==
                 IF e.hasRName
                 THEN PlaceBytes(PlaceName(PlaceBytes(afterStatic, e.pre), names[2]),
                                 e.post)
                 ELSE PlaceBytes(afterStatic, e.pre)
             rdLength ==
                 Len(e.pre) + (IF e.hasRName THEN NameLength(names[2]) + Len(e.post)
                               ELSE 0)
         IN  EndEntry(RData(PlaceBytes(PlaceName(st, names[1]),
                                       BE16(e.Type) \o BE16(e.Class) \o BE32(e.TTL)
                                           \o BE16(rdLength))))

NamesIn(e) == IF e.sec # "q" /\ e.hasRName THEN 2 ELSE 1

RECURSIVE PlaceEntries(_, _, _)
PlaceEntries(st, entries, names) ==
    IF entries = <<>> THEN st
    ELSE PlaceEntries(PlaceEntry(st, Head(entries), names), Tail(entries),
                      SubSeq(names, NamesIn(Head(entries)) + 1, Len(names)))

CountSec(entries, sec) == Cardinality({k \in 1..Len(entries) : entries[k].sec = sec})

\* the message: the header with the counts of the entries, then the entries
WireMessage(entries, names) ==
    PlaceEntries([b |-> rawDNSHeader_toBytes(
                            [Id |-> 4660, Flag |-> <<132, 0>>,
                             QdCount |-> CountSec(entries, "q"),
                             AnCount |-> CountSec(entries, "an"),
                             NSCount |-> CountSec(entries, "ns"),
                             ArCount |-> CountSec(entries, "ad")]),
                  names |-> <<>>, bad |-> FALSE, badAt |-> 0, entries |-> 0],
                 entries, names)

WQuestion ==
    [sec |-> "q", Type |-> 255, Class |-> 1, TTL |-> <<0, 0>>, pre |-> <<>>,
     hasRName |-> FALSE, post |-> <<>>]

WRecord(sec, type, pre, hasRName, post) ==
    [sec |-> sec, Type |-> type, Class |-> 32769, TTL |-> <<0, 120>>, pre |-> pre,
     hasRName |-> hasRName, post |-> post]

WA(sec)    == WRecord(sec, TypeA, <<10, 9, 5, 4>>, FALSE, <<>>)
WSRV(sec)  == WRecord(sec, TypeSRV, <<0, 0, 0, 0, 27, 88>>, TRUE, <<>>)
WPTR(sec)  == WRecord(sec, TypePTR, <<>>, TRUE, <<>>)
WNSEC(sec) == WRecord(sec, TypeNSEC, <<>>, TRUE, <<0, 1, 64>>)
WTXT(sec)  == WRecord(sec, TypeTXT, <<1, 97>>, FALSE, <<>>)

\* the entry lists laid out, each with the literal labels of its plain names
Shapes ==
    {[entries |-> <<WQuestion>>,
      lits    |-> <<<<<<97, 98>>, <<98>>>>>>],
     [entries |-> <<WQuestion, WA("an"), WSRV("an")>>,
      lits    |-> <<<<<<97, 98>>, <<98>>>>, <<<<97>>>>, <<<<98>>>>, <<<<97, 98>>>>>>],
     [entries |-> <<WA("an"), WPTR("an"), WNSEC("ad")>>,
      lits    |-> <<<<<<97, 98>>, <<98>>>>, <<<<97>>>>, <<<<98>>, <<97, 98>>>>,
                    <<<<98>>>>, <<<<97>>>>>>],
     [entries |-> <<WQuestion, WQuestion, WSRV("an"), WTXT("ad")>>,
      lits    |-> <<<<<<97>>>>, <<<<97, 98>>, <<98>>>>, <<<<98>>>>,
                    <<<<97>>, <<98>>>>, <<<<97, 98>>>>>>]}

PlainName(shape, i) == [lits |-> shape.lits[i], tail |-> RootTail]

\* what name field i may be instead of its plain name
NameOptions(shape, i) ==
    {[lits |-> l, tail |-> t] :
        l \in {<<>>, shape.lits[i]},
        t \in {RootTail, BadTail(64), BadTail(128)}
                  \cup {PtrTail(j, k) : j \in 1..(i - 1), k \in 1..2}}

\* every pointer selects a literal label of an earlier name
ValidNames(names) ==
    \A i \in 1..Len(names) :
        names[i].tail.kind = "ptr" =>
            names[i].tail.label <= Len(names[names[i].tail.name].lits)

VariedNames(shape, S) ==
    {[i \in 1..Len(shape.lits) |-> IF i \in S THEN f[i] ELSE PlainName(shape, i)] :
        f \in {g \in [S -> UNION {NameOptions(shape, i) : i \in S}] :
                  \A i \in S : g[i] \in NameOptions(shape, i)}}

NameChoices(shape) ==
    {names \in UNION {VariedNames(shape, S) :
                         S \in {T \in SUBSET (1..Len(shape.lits)) :
                                   Cardinality(T) <= MaxVaried}} :
        ValidNames(names)}

----------------------------------------------------------------------------
(* Decoding a message from the network with a fresh Decoder, then encoding  *)
(* the decoded message and decoding that with another fresh Decoder (the    *)
(* message round-trip test).                                                *)

InitWireFrom(shape, names, w) ==
    /\ src = [entries |-> shape.entries,
              fields  |-> names,
              names   |-> [k \in 1..Len(w.names) |-> Join(w.names[k].labels)],
              badAt   |-> w.badAt,
              first   |-> Null]
    /\ wire = [b |-> w.b, err |-> "nil"]
    /\ d = NewDecoder(w.b)
    /\ pc = "hdr"
    /\ dm = ZeroMessage
    /\ err = "nil"

\* every name field after the first ends in a pointer into the one before it:
\* to its first label (the name field itself when it has no literal label) or
\* to what follows its literal labels
ChainNames(shape) ==
    {[i \in 1..Len(shape.lits) |->
         IF i = 1 THEN PlainName(shape, 1)
         ELSE [lits |-> IF i \in bare THEN <<>> ELSE shape.lits[i],
               tail |-> PtrTail(i - 1,
                                IF i \in last /\ (i - 1) \notin bare /\ i > 2
                                THEN Len(shape.lits[i - 1]) + 1 ELSE 1)]] :
        bare \in SUBSET (2..Len(shape.lits)), last \in {{}, {3}, 2..Len(shape.lits)}}

InitWire ==
    \E shape \in Shapes : \E names \in NameChoices(shape) \cup ChainNames(shape) :
        InitWireFrom(shape, names, WireMessage(shape.entries, names))

\* dm.ToBytes() on the decoded message, and a fresh Decoder on its output
Reencode ==
    /\ pc = "done" /\ err = "nil" /\ src.first = Null
    /\ src' = [src EXCEPT !.first = dm]
    /\ wire' = DNSMessage_ToBytes(dm)
    /\ d' = NewDecoder(wire'.b)
    /\ dm' = ZeroMessage
    /\ pc' = "hdr"
    /\ UNCHANGED err

NextWire == DecodeDNSMessage \/ Reencode

SpecWire == InitWire /\ [][NextWire]_vars

\* the names of a record, in the order the decoder reads them
RecordNameList(rec) ==
    <<rec.Common.Domain>>
        \o (IF rec.kind = "SRV" THEN <<rec.Target>> ELSE <<>>)
        \o (IF rec.kind = "PTR" THEN <<rec.PtrDName>> ELSE <<>>)
        \o (IF rec.kind = "NSEC" THEN <<rec.NextDomainName>> ELSE <<>>)

\* the names of a message, in the order the decoder reads them
NamesOf(m) ==
    [k \in 1..Len(m.Questions) |-> m.Questions[k].Domain]
        \o Concat([k \in 1..Len(m.Answers) |-> RecordNameList(m.Answers[k])])
        \o Concat([k \in 1..Len(m.Additional) |-> RecordNameList(m.Additional[k])])

\* C7: in a message whose names are well formed, each ending in the root byte
\* or in a pointer to the exact offset of a label of an earlier name field
\* (question name, owner name or RDATA name, of any earlier question or
\* record), DecodeDNSMessage succeeds and every name is its literal labels
\* followed by the suffix of the earlier name from the label pointed at.
C7_SharedLabelContext ==
    (pc = "done" /\ src.first = Null /\ src.badAt = 0)
        => /\ err = "nil"
           /\ NamesOf(dm) = src.names

C7_Witness ==
    /\ pc = "done" /\ src.first = Null /\ src.badAt = 0
    /\ Len(src.entries) = 3 /\ src.entries[3].Type = TypeSRV
    /\ src.fields[4] = [lits |-> <<>>, tail |-> PtrTail(2, 1)]
    /\ src.fields[3].tail = PtrTail(1, 2)
    /\ err = "nil"
    /\ dm.Answers[2].kind = "SRV"
    /\ dm.Answers[2].Target = dm.Answers[1].Common.Domain
    /\ dm.Answers[2].Target = <<97>>
    /\ dm.Answers[2].Common.Domain = <<98, Dot, 98>>

RECURSIVE FieldLabels(_, _)
\* the labels that name field i stands for: its literal labels, then the labels
\* of the field it points into, from the label pointed at on
FieldLabels(fields, i) ==
    fields[i].lits
        \o (IF fields[i].tail.kind = "ptr"
            THEN LET target == FieldLabels(fields, fields[i].tail.name)
                 IN  SubSeq(target, fields[i].tail.label, Len(target))
            ELSE <<>>)

RECURSIVE PointerDepth(_, _)
\* the number of pointers followed from name field i to the end of its name
PointerDepth(fields, i) ==
    IF fields[i].tail.kind # "ptr" THEN 0
    ELSE IF fields[i].tail.label <= Len(fields[fields[i].tail.name].lits)
            /\ fields[fields[i].tail.name].tail.kind # "ptr"
    THEN 1
    ELSE 1 + PointerDepth(fields, fields[i].tail.name)

\* the name that labels give when written in full and read by a Decoder of
\* their own
InlineName(labels) ==
    rawLabels_toDomain(
        nextRawLabels(NewDecoder(LiteralBytes(labels) \o <<0>>)).labels)

\* C22: a name of literal labels followed by a pointer whose target name ends
\* in a pointer too, to any depth, decodes to its literal labels, then the
\* labels from the target on, then those reached through each further pointer
\* in turn: the name that these labels give when written without compression.
C22_NestedPointerOrder ==
    (pc = "done" /\ src.first = Null /\ src.badAt = 0)
        => /\ err = "nil"
           /\ \A i \in 1..Len(src.fields) :
                  PointerDepth(src.fields, i) >= 2
                      => NamesOf(dm)[i] = InlineName(FieldLabels(src.fields, i))

\* the last name of a message of five name fields is reached through four
\* pointers
C22_Witness ==
    /\ pc = "done" /\ src.first = Null /\ src.badAt = 0 /\ err = "nil"
    /\ Len(src.fields) = 5
    /\ PointerDepth(src.fields, 5) = 4
    /\ \A i \in 2..5 : src.fields[i].lits # <<>>
    /\ NamesOf(dm)[5] = <<97, Dot, 98, Dot, 98, Dot, 97, 98, Dot, 97, Dot, 97, 98, Dot, 98>>

\* the offsets of the labels of a name laid at some offset: its literal
\* labels, then its root byte or pointer
OffsetsOfName(placed) == [k \in 1..(Len(placed.lits) + 1) |-> LabelOffset(placed, k)]

\* C23: every label record of a Decoder that reads a message from its start
\* has the offset in the message of the label's length byte: the byte there is
\* the label's length, followed by its content, or the first of the two bytes
\* of the pointer; the records of a decoded message are at the offsets where
\* the names lie, those of a PTR or NSEC name from the RDATA start on and those
\* of an SRV target from 6 bytes after it.
C23_LabelOffsetsAbsolute ==
    /\ \A k \in 1..Len(d.labelRecords) :
          LET lr == d.labelRecords[k]
          IN  /\ lr.offset < Len(wire.b)
              /\ IF lr.isPtr
                 THEN /\ wire.b[lr.offset + 1] >= 192
                      /\ (wire.b[lr.offset + 1] - 192) * 256 + wire.b[lr.offset + 2]
                            = lr.targetOffset
                 ELSE /\ wire.b[lr.offset + 1] = lr.length
                      /\ lr.content = SubSeq(wire.b, lr.offset + 2,
                                             lr.offset + 1 + lr.length)
    /\ (pc = "done" /\ src.first = Null /\ err = "nil")
          => LET Laid(placed) ==
                     [k \in 1..Len(d.labelRecords) |-> d.labelRecords[k].offset]
                         = Concat([n \in 1..Len(placed) |-> OffsetsOfName(placed[n])])
             IN  Laid(WireMessage(src.entries, src.fields).names)

\* a question, an A record and an SRV record with all names in full but the SRV
\* target, "ab" and a pointer to the question's second label: the RDATA starts
\* at offset 52, and the target's label and pointer are recorded at 58 and 61
C23_Witness ==
    /\ pc = "done" /\ src.first = Null /\ err = "nil"
    /\ Len(src.entries) = 3 /\ src.entries[3].Type = TypeSRV
    /\ \A i \in 1..3 : src.fields[i].tail = RootTail /\ src.fields[i].lits # <<>>
    /\ src.fields[4] = [lits |-> <<<<97, 98>>>>, tail |-> PtrTail(1, 2)]
    /\ SubSeq(wire.b, 51, 52) = BE16(11)
    /\ Len(d.labelRecords) = 9
    /\ d.labelRecords[8].offset = 58 /\ d.labelRecords[8].content = <<97, 98>>
    /\ d.labelRecords[9].offset = 61 /\ d.labelRecords[9].isPtr
    /\ d.labelRecords[9].targetOffset = 15
    /\ dm.Answers[2].Target = <<97, 98, Dot, 98>>

\* C8: when a message decoded without error is encoded with ToBytes and the
\* output decoded with a fresh Decoder, both succeed and the second message
\* equals the first.
C8_ReencodeIdempotent ==
    (pc = "done" /\ src.first # Null)
        => /\ wire.err = "nil"
           /\ err = "nil"
           /\ dm = src.first

\* C9: when a name holds, where a label length is read, a byte whose top two
\* bits are 01 or 10, DecodeDNSMessage returns an error and the question or
\* record of that name is not among those it returns.
C9_IllegalLengthRejected ==
    (pc = "done" /\ src.first = Null /\ src.badAt > 0)
        => /\ err = "wrapped"
           /\ Len(dm.Questions) + Len(dm.Answers) + Len(dm.Additional) = src.badAt - 1

C9_Witness ==
    /\ pc = "done" /\ src.first = Null /\ src.badAt = 3
    /\ src.entries[3].Type = TypeSRV
    /\ src.fields[3].tail = RootTail
    /\ src.fields[4] = [lits |-> <<<<97, 98>>>>, tail |-> BadTail(128)]
    /\ err = "wrapped"
    /\ Len(dm.Questions) = 1 /\ Len(dm.Answers) = 1

----------------------------------------------------------------------------
(* Byte streams handed to one Decoder: a message cut short, a message with  *)
(* a record of a type that has no decoder, with RDATA shorter or longer     *)
(* than its type needs or with TXT RDATA of any content, a message whose    *)
(* pointers lead back to themselves, a message with name-server records,    *)
(* a message that follows some 65500 bytes of earlier messages, and two     *)
(* messages back to back, read by two calls of DecodeDNSMessage on the same *)
(* Decoder.                                                                 *)

PlainNames(shape) == [i \in 1..Len(shape.lits) |-> PlainName(shape, i)]

\* the message of a shape with all its names written in full
PlainMessage(shape) == WireMessage(shape.entries, PlainNames(shape))

\* the complete messages that are cut
CutShapes ==
    Shapes \cup {[entries |-> <<WQuestion, WA("an")>>,
                  lits    |-> <<<<<<97, 98>>, <<98>>>>, <<<<97>>>>>>]}

\* the message in which one record is replaced
OddBase ==
    [entries |-> <<WQuestion, WA("an"), WA("an"), WTXT("ad"), WA("ad")>>,
     lits    |-> <<<<<<97, 98>>, <<98>>>>, <<<<97>>>>, <<<<98>>>>, <<<<97>>>>,
                   <<<<97, 98>>>>>>]

\* type codes without a decoder
UnsupportedTypes == {0, 5, 15, 46, 255, 65535}

\* RDATA shorter than the fixed part of the record's type
ShortRData ==
    {[Type |-> TypeA, rData |-> Rep(10, n)] : n \in 0..3}
        \cup {[Type |-> TypeAAAA, rData |-> Rep(32, n)] : n \in {0, 4, 15}}
        \cup {[Type |-> TypeSRV, rData |-> Rep(0, n)] : n \in {0, 2, 5}}

\* OddBase with entry number at replaced by a record of the given type and RDATA
OddMessage(at, type, rData) ==
    WireMessage([OddBase.entries EXCEPT
                    ![at] = WRecord(OddBase.entries[at].sec, type, rData, FALSE, <<>>)],
                PlainNames(OddBase))

\* names of the second message of a stream: one name field varied, none illegal
PairNames(shape) ==
    {names \in UNION {VariedNames(shape, {i}) : i \in 1..Len(shape.lits)} :
        /\ ValidNames(names)
        /\ \A i \in 1..Len(names) : names[i].tail.kind # "bad"}

\* RDATA with bytes after what the record's type reads, or none at all
LongRData ==
    {[Type |-> TypeA, rData |-> <<10, 9, 5, 4, 7, 7>>],
     [Type |-> TypeAAAA, rData |-> Rep(32, 16) \o <<7, 7>>],
     [Type |-> TypeSRV, rData |-> <<0, 1, 0, 2, 27, 88, 1, 97, 0, 7, 7>>],
     [Type |-> TypePTR, rData |-> <<1, 97, 0, 7>>],
     [Type |-> TypeNSEC, rData |-> <<1, 97, 0, 0, 1, 64, 0>>],
     [Type |-> TypeTXT, rData |-> <<>>],
     [Type |-> TypeOPT, rData |-> <<>>],
     [Type |-> TypeOPT, rData |-> <<0, 4, 0, 1, 7, 0>>]}

\* TXT RDATA: whole texts, and a last length byte with fewer bytes after it
TXTRData ==
    {<<1, 97>>, <<2, 97, 98, 1, 99>>, <<0, 1, 97>>, <<5, 97>>, <<1, 97, 3, 98, 99>>,
     <<1, 97, 3>>, <<255>> \o Rep(120, 255)}

\* a header with the given question and answer counts
CountsHeader(qd, an) ==
    rawDNSHeader_toBytes([Id |-> 4660, Flag |-> <<132, 0>>, QdCount |-> qd,
                          AnCount |-> an, NSCount |-> 0, ArCount |-> 0])

\* names at offset 12 that end in a pointer to offset 12 or to the pointer itself
LoopNames == {<<192, 12>>, <<1, 97, 192, 12>>, <<1, 97, 192, 14>>,
              <<1, 97, 1, 98, 192, 14>>}

\* a question with one of these names, then two A records owned by a pointer
\* to the given target
LoopMessage(nm, target) ==
    CountsHeader(1, 2) \o nm \o BE16(255) \o BE16(1)
        \o <<192 + (target \div 256), target % 256>> \o BE16(TypeA) \o BE16(1)
        \o BE32(<<0, 120>>) \o BE16(4) \o <<10, 9, 5, 4>>
        \o <<192 + (target \div 256), target % 256>> \o BE16(TypeA) \o BE16(1)
        \o BE32(<<0, 120>>) \o BE16(4) \o <<10, 9, 5, 5>>

\* what a Decoder has read before the stream of a case: a message of one
\* question for the name "a", and after it messages of a header alone
EarlierQuestion == CountsHeader(1, 0) \o <<1, 97, 0>> \o BE16(255) \o BE16(1)

\* numbers of header-only messages after which a message lies across offset
\* 65536, and one after which it ends just below
EarlierCounts == {5457, 5458, 5459}

\* a question for "b" and an A record owned by "ab"
LateMessage ==
    CountsHeader(1, 1) \o <<1, 98, 0>> \o BE16(255) \o BE16(1)
        \o <<2, 97, 98, 0>> \o BE16(TypeA) \o BE16(1) \o BE32(<<0, 120>>) \o BE16(4)
        \o <<10, 9, 5, 4>>

\* records of the name-server section: an NS record and two of decodable types
NSRecords ==
    {WRecord("ns", 2, <<1, 110, 0>>, FALSE, <<>>),
     WRecord("ns", TypeA, <<10, 0, 0, 53>>, FALSE, <<>>),
     WRecord("ns", TypeTXT, <<2, 110, 115>>, FALSE, <<>>)}

\* a question and an answer, then the name-server and the additional records
NSShape(nss, adds) ==
    [entries |-> <<WQuestion, WA("an")>> \o nss \o adds,
     lits    |-> [k \in 1..(2 + Len(nss) + Len(adds)) |-> <<<<97>>>>]]

StreamCase(kind, b, full, at, second, rData) ==
    [kind |-> kind, b |-> b, full |-> full, at |-> at, second |-> second,
     rData |-> rData, call |-> 1, earlier |-> 0]

StreamCases ==
    UNION {{StreamCase("cut", SubSeq(PlainMessage(shape).b, 1, n), PlainMessage(shape).b,
                       0, <<>>, <<>>) : n \in 0..Len(PlainMessage(shape).b)} :
              shape \in CutShapes}
    \cup {StreamCase("unsupported", OddMessage(at, t, <<1, 2, 3>>).b,
                     OddMessage(at, t, <<1, 2, 3>>).b, at, <<>>, <<1, 2, 3>>) :
             at \in 2..5, t \in UnsupportedTypes}
    \cup {StreamCase("short", OddMessage(at, s.Type, s.rData).b,
                     OddMessage(at, s.Type, s.rData).b, at, <<>>, s.rData) :
             at \in 2..4, s \in ShortRData}
    \cup {StreamCase("long", OddMessage(at, s.Type, s.rData).b,
                     OddMessage(at, s.Type, s.rData).b, at, <<>>, s.rData) :
             at \in 2..4, s \in LongRData}
    \cup {StreamCase("txt", OddMessage(at, TypeTXT, rData).b,
                     OddMessage(at, TypeTXT, rData).b, at, <<>>, rData) :
             at \in 2..5, rData \in TXTRData}
    \cup {StreamCase("loop", LoopMessage(nm, target), LoopMessage(nm, target), 0,
                     <<>>, <<>>) :
             nm \in LoopNames, target \in {12, 14}}
    \cup {[StreamCase("late", LateMessage, LateMessage, 0, <<>>, <<>>)
               EXCEPT !.earlier = n] : n \in EarlierCounts}
    \cup {StreamCase("ns", PlainMessage(NSShape(nss, adds)).b,
                     PlainMessage(NSShape(nss, adds)).b, 3,
                     PlainMessage(NSShape(<<>>, adds)).b, <<>>) :
             nss \in UNION {[1..n -> NSRecords] : n \in 1..2},
             adds \in {<<>>, <<WTXT("ad")>>, <<WTXT("ad"), WA("ad")>>}}
    \cup UNION {{StreamCase("pair",
                            PlainMessage(first).b \o WireMessage(shape.entries, names).b,
                            PlainMessage(first).b, 0,
                            WireMessage(shape.entries, names).b, <<>>) :
                    first \in Shapes, names \in PairNames(shape)} :
                   shape \in Shapes}

\* the state of a DecodeDNSMessage call that starts on Decoder dec
StartCall(dec) == [d |-> dec, dm |-> ZeroMessage, err |-> "nil", pc |-> "hdr"]

\* DecodeDNSMessage: the step the call takes from state st
DecodeStep(st) ==
    IF st.pc = "hdr" THEN DecodeHeaderStep(st)
    ELSE IF MoreQuestions(st) THEN DecodeQuestionStep(st)
    ELSE IF MoreAnswers(st) THEN DecodeAnswerStep(st)
    ELSE IF MoreAdditional(st) THEN DecodeAdditionalStep(st)
    ELSE DecodeReturnStep(st)

RECURSIVE RunDecode(_)
\* DecodeDNSMessage from state st to its return
RunDecode(st) == IF st.pc = "done" THEN st ELSE RunDecode(DecodeStep(st))

\* the Decoder that is about to read the bytes b after n header-only messages:
\* a new one when n = 0; otherwise it has read EarlierQuestion, which left its
\* label records, and then the n messages, each of which moved the offset by
\* the bytes of a header and added no label record.  Of the stream only the
\* bytes b still to be read are kept.
DecoderAfter(n, b) ==
    LET Later(first, hdr) ==
            [rdr |-> [reader |-> NewReader(b),
                      offset |-> first.d.rdr.offset + n * hdr.d.rdr.offset],
             labelRecords |-> first.d.labelRecords \o hdr.d.labelRecords]
    IN  IF n = 0 THEN NewDecoder(b)
        ELSE Later(RunDecode(StartCall(NewDecoder(EarlierQuestion))),
                   RunDecode(StartCall(NewDecoder(CountsHeader(0, 0)))))

InitStream ==
    \E c \in StreamCases :
        /\ src = c
        /\ wire = [b |-> c.b, err |-> "nil", avail |-> Len(c.b)]
        /\ d = DecoderAfter(c.earlier, c.b)
        /\ pc = "hdr"
        /\ dm = ZeroMessage
        /\ err = "nil"

\* the caller, after a message, calls DecodeDNSMessage again on the same
\* Decoder; avail is the number of bytes the stream still holds then
SecondCall ==
    /\ pc = "done" /\ err = "nil" /\ src.call = 1
    /\ src' = [src EXCEPT !.call = 2]
    /\ wire' = [wire EXCEPT !.avail = Remaining(d.rdr.reader)]
    /\ Become(StartCall(d))

NextStream == DecodeDNSMessage \/ SecondCall

SpecStream == InitStream /\ [][NextStream]_vars

\* C11: when the stream ends after the header and before the last byte of the
\* declared questions and records, RDATA included, DecodeDNSMessage returns an
\* error.
C11_TruncatedFails ==
    (/\ pc = "done" /\ src.kind = "cut" /\ src.call = 1
     /\ Len(wire.b) >= 12 /\ Len(wire.b) < Len(src.full))
        => err # "nil"

\* C12: DecodeDNSMessage returns the bare io.EOF exactly when no byte is left
\* where the header is read; when the stream ends within the header or
\* anywhere in the message after it, it returns an error other than io.EOF.
C12_CleanEOFOnlyAtHeader ==
    (pc = "done" /\ src.kind = "cut")
        => /\ err = "EOF" <=> wire.avail = 0
           /\ (src.call = 1 /\ Len(wire.b) > 0 /\ Len(wire.b) < Len(src.full))
                  => err \notin {"nil", "EOF"}

\* C13: a record whose type has no decoder makes DecodeDNSMessage return an
\* error, with the records before it and none after it in the message returned.
C13_UnsupportedTypeStops ==
    (pc = "done" /\ src.kind = "unsupported")
        => /\ err = "wrapped"
           /\ Len(dm.Questions) + Len(dm.Answers) + Len(dm.Additional) = src.at - 1

C13_Witness ==
    /\ pc = "done" /\ src.kind = "unsupported" /\ src.at = 3
    /\ err = "wrapped"
    /\ Len(dm.Questions) = 1 /\ Len(dm.Answers) = 1 /\ dm.Additional = <<>>
    /\ dm.Hdr.NumAnswers = 2 /\ dm.Hdr.NumAddlRecords = 2

\* C14: DecodeDNSMessage ends by returning a message or an error value, also
\* when the RDATA of an A, AAAA or SRV record is shorter than the fixed part of
\* its type: it does not panic.
C14_NoCrash ==
    pc = "done" => err \in {"nil", "EOF", "wrapped"}

\* C15: the second DecodeDNSMessage call on a Decoder whose stream holds two
\* messages back to back gives the result that a fresh Decoder gives for the
\* bytes of the second message alone.
C15_ContextPerMessage ==
    (pc = "done" /\ src.kind = "pair" /\ src.call = 2)
        => LET Same(fresh) == dm = fresh.dm /\ err = fresh.err
           IN  Same(RunDecode(StartCall(NewDecoder(src.second))))

RECURSIVE NameEnd(_, _)
\* the offset after the name that starts at offset off of the bytes b: after its
\* root byte or its two pointer bytes
NameEnd(b, off) ==
    IF b[off + 1] = 0 THEN off + 1
    ELSE IF b[off + 1] >= 192 THEN off + 2
    ELSE NameEnd(b, off + 1 + b[off + 1])

\* the offset after the record whose ten static bytes start at offset s: the
\* RDATA starts at s + 10 and is as long as the last two static bytes declare
RecordEndAfterName(b, s) == s + 10 + FromBE16(SubSeq(b, s + 9, s + 10))

RECURSIVE EntriesEnd(_, _, _, _)
\* the offset after nq questions and nr records laid from offset off on
EntriesEnd(b, off, nq, nr) ==
    IF nq > 0 THEN EntriesEnd(b, NameEnd(b, off) + 4, nq - 1, nr)
    ELSE IF nr > 0 THEN EntriesEnd(b, RecordEndAfterName(b, NameEnd(b, off)), 0, nr - 1)
    ELSE off

\* entry number at of a decoded message with one question and two answers
RecordAt(m, at) == IF at <= 3 THEN m.Answers[at - 1] ELSE m.Additional[at - 3]

\* entry number at has been decoded
DecodedTo(m, at) == Len(m.Questions) + Len(m.Answers) + Len(m.Additional) >= at

\* C24: after each record decoded without error the stream offset is the
\* record's RDATA start plus its declared RDATA length, whatever the type and
\* whatever part of the RDATA the type's decoder used, so the next record is
\* read from there; an A record declaring 6 RDATA bytes has their first 4 as
\* its address.
C24_LengthGovernsConsumption ==
    /\ (pc = "body" \/ (pc = "done" /\ err = "nil"))
          => d.rdr.offset - DecoderAfter(src.earlier, <<>>).rdr.offset
                = EntriesEnd(wire.b, Len(wire.b) - wire.avail + 12,
                                       Len(dm.Questions),
                                       Len(dm.Answers) + Len(dm.Additional))
    /\ (src.kind = "long" /\ DecodedTo(dm, src.at) /\ RecordAt(dm, src.at).kind = "A")
          => RecordAt(dm, src.at).Addr = SubSeq(src.rData, 1, 4)

RECURSIVE SumLen(_)
\* the bytes that the texts take in RDATA, each with its length byte
SumLen(texts) == IF texts = <<>> THEN 0 ELSE 1 + Len(Head(texts)) + SumLen(Tail(texts))

\* C25: the texts of a decoded TXT record lie inside its RDATA: together with
\* their length bytes they take no more bytes than the RDATA has, and each is
\* the bytes that follow its length byte there.
C25_TXTInsideRData ==
    (src.kind = "txt" /\ DecodedTo(dm, src.at))
        => LET texts == RecordAt(dm, src.at).texts
           IN  /\ SumLen(texts) <= Len(src.rData)
               /\ \A k \in 1..Len(texts) :
                      /\ src.rData[SumLen(SubSeq(texts, 1, k - 1)) + 1] = Len(texts[k])
                      /\ texts[k] = SubSeq(src.rData,
                                           SumLen(SubSeq(texts, 1, k - 1)) + 2,
                                           SumLen(SubSeq(texts, 1, k)))

\* C26: DecodeDNSMessage returns: no resolution of a compression pointer goes
\* on without end, also when a recorded pointer leads to its own offset or into
\* the name that it ends.
C26_DecodingTerminates ==
    err # "crash"

\* C28: the name-server records that the header declares, lying between the
\* answers and the additional records, are passed over: the call succeeds with
\* the questions, answers and additional records that the message has without
\* its name-server section.
C28_NameServersPassedOver ==
    (pc = "done" /\ src.kind = "ns" /\ src.call = 1)
        => LET Same(plain) ==
                   /\ err = "nil"
                   /\ dm.Questions = plain.dm.Questions
                   /\ dm.Answers = plain.dm.Answers
                   /\ dm.Additional = plain.dm.Additional
           IN  Same(RunDecode(StartCall(NewDecoder(src.second))))

\* C30: whatever decode steps a Decoder has taken, its label records are in
\* strictly increasing order of offset: each record appended has an offset
\* above that of every record before it.
C30_LabelTableAscending ==
    \A k \in 1..(Len(d.labelRecords) - 1) :
        d.labelRecords[k].offset < d.labelRecords[k + 1].offset

----------------------------------------------------------------------------
(* Two Decoders, each made by NewDecoder over a byte source of its own, with *)
(* the steps of their DecodeDNSMessage calls interleaved.  NewDecoder        *)
(* allocates the readCounter that the Decoder points to; d.heap holds the    *)
(* allocated readCounters and d.dec the two Decoder values, pc, dm and err   *)
(* the positions and results of the two calls, src.order the Decoders in the *)
(* order in which they stepped.                                              *)

\* every name field after the first is its literal labels and a pointer to the
\* first label of the one before it
PointerMessage(shape) ==
    WireMessage(shape.entries,
                [i \in 1..Len(shape.lits) |->
                    IF i = 1 THEN PlainName(shape, 1)
                    ELSE [lits |-> shape.lits[i], tail |-> PtrTail(i - 1, 1)]])

\* the byte sources: messages with names in full and with pointers, a message
\* cut in a record, and a message with a record of an unsupported type
PairSources ==
    {PlainMessage(shape).b : shape \in Shapes}
        \cup {PointerMessage(shape).b : shape \in Shapes}
        \cup {SubSeq(PlainMessage(OddBase).b, 1, 40), OddMessage(3, 15, <<1, 2, 3>>).b}

\* NewDecoder with one readCounter for the package, which every Decoder
\* points to and every call sets to its own reader
NewDecoderIn_Static(heap, b) ==
    [heap |-> <<[reader |-> NewReader(b), offset |-> 0]>>,
     dec  |-> [rdr |-> 1, labelRecords |-> <<>>]]

\* NewDecoder: &readCounter{reader: r} is a new readCounter, and the Decoder
\* returned points to it and has no label records
NewDecoderIn(heap, b) ==
    [heap |-> Append(heap, [reader |-> NewReader(b), offset |-> 0]),
     dec  |-> [rdr |-> Len(heap) + 1, labelRecords |-> <<>>]]

InitPair ==
    \E b1, b2 \in PairSources :
        LET Made(first, second) ==
                d = [heap |-> second.heap, dec |-> <<first.dec, second.dec>>]
            Second(first) == Made(first, NewDecoderIn(first.heap, b2))
        IN  /\ Second(NewDecoderIn(<<>>, b1))
            /\ src = [order |-> <<>>]
            /\ wire = [b |-> <<b1, b2>>, err |-> "nil"]
            /\ pc = <<"hdr", "hdr">>
            /\ dm = <<ZeroMessage, ZeroMessage>>
            /\ err = <<"nil", "nil">>

\* the call of Decoder i as it stands: the Decoder with the readCounter it
\* points to
CallOf(i) ==
    [d   |-> [rdr |-> d.heap[d.dec[i].rdr], labelRecords |-> d.dec[i].labelRecords],
     dm  |-> dm[i], err |-> err[i], pc |-> pc[i]]

\* Decoder i takes the next step of its DecodeDNSMessage call
StepOf(i) ==
    /\ pc[i] # "done"
    /\ \E call \in {CallOf(i)} : \E st \in {DecodeStep(call)} :
          /\ d' = [heap |-> [d.heap EXCEPT ![d.dec[i].rdr] = st.d.rdr],
                   dec  |-> [d.dec EXCEPT ![i].labelRecords = st.d.labelRecords]]
          /\ dm' = [dm EXCEPT ![i] = st.dm]
          /\ err' = [err EXCEPT ![i] = st.err]
          /\ pc' = [pc EXCEPT ![i] = st.pc]
    /\ src' = [src EXCEPT !.order = Append(@, i)]
    /\ UNCHANGED wire

NextPair == \E i \in 1..2 : StepOf(i)

SpecPair == InitPair /\ [][NextPair]_vars

\* C21: two Decoders over separate byte sources, their decode steps
\* interleaved in any order, each return the message and error that a Decoder
\* returns when it reads the same bytes alone, and they point to different
\* offset counters.
C21_IndependentDecoders ==
    /\ d.dec[1].rdr # d.dec[2].rdr
    /\ \A i \in 1..2 :
          pc[i] = "done"
              => \E alone \in {RunDecode(StartCall(NewDecoder(wire.b[i])))} :
                     dm[i] = alone.dm /\ err[i] = alone.err

\* both calls have returned after steps taken in turn, one a message of three
\* entries with pointers and the other a different message in full
C21_Witness ==
    /\ pc = <<"done", "done">>
    /\ Len(src.order) >= 8
    /\ SubSeq(src.order, 1, 8) = <<1, 2, 1, 2, 1, 2, 1, 2>>
    /\ wire.b[1] = PointerMessage(CHOOSE shape \in Shapes :
                                      /\ Len(shape.entries) = 3
                                      /\ shape.entries[1].sec = "q").b
    /\ wire.b[2] # wire.b[1]
    /\ err = <<"nil", "nil">>
    /\ Len(dm[1].Answers) = 2 /\ dm[1].Answers[2].kind = "SRV"
    /\ dm[1].Answers[2].Target = <<97, 98, Dot, 98, Dot, 97, Dot, 97, 98, Dot, 98>>
    /\ Len(dm[2].Questions) = 2

====
